---- MODULE Spec2Model ----
(***************************************************************************)
(* A model of the analytics pipeline of tbot: parsed signals, the          *)
(* rule-driven consensus detector (analysis/consensus_detector.py) and the *)
(* batch parsing service (analysis/message_parser.py) over the persistence *)
(* facade (core/database/database.py).                                     *)
(*                                                                         *)
(* Tables are sequences of rows; a row's position is its primary key       *)
(* (UUIDs and serial ids are fresh per insert, which is all the code uses  *)
(* of them).  Timestamps are whole minutes.  SQL NULL / Python None is the *)
(* string NULL; a query without ORDER BY returns its rows in any order, so *)
(* whatever depends on that order is a nondeterministic choice.            *)
(***************************************************************************)
EXTENDS Integers, Sequences, FiniteSets, TLC

\* ------------------------------------------------------------------ bounds
MaxSignals == 3
MaxEvents == 2
MaxTime == 2
MaxMessages == 2
MaxPatterns == 2
MaxCacheLen == 4
MaxRuns == 1
MaxMembers == 5
MaxPositions == 2

NULL == "NULL"

\* ConsensusDetector.__init__: the fallback parameters when no rule is active.
default_window_minutes == 10
default_min_traders == 2
default_strict_consensus == TRUE

\* _check_indicator_conditions: the candle query's LIMIT and the fewest
\* candles the indicators are evaluated on.
CandleLimit == 100
MinCandles == 30

\* MessageParsingService._get_unprocessed_messages: the page size when the
\* caller gives no limit.
BatchLimit == 100

VARIABLES
    signals,            \* parsed_signals rows, by id
    events,             \* consensus_events rows, by id
    consensus_signals,  \* consensus_signals rows (the junction), in insert order
    began,              \* per event: how many events were committed when the
                        \* call that created it began its transaction
    rules,              \* consensus_rules rows
    candles,            \* per FIGI: the hourly candle history
    last_call,          \* the signal id of the most recent detector call, 0
                        \* once anything else has changed the database
    det,                \* per worker: where its check_new_signal_sync call
                        \* stands and what it has read so far
    messages,           \* raw_messages rows, by id
    batch,              \* parse_all_unprocessed_messages: where the run
                        \* stands, the messages it pulled, its stats
    reparse,            \* reparse_all_messages_task: where the task stands,
                        \* its current page, its counters
    patterns,           \* PatternManager: the cache and the threads using it
    singletons,         \* the module-level detector and backtester
                        \* instances and the threads asking for them
    backtest,           \* ConsensusBacktester.run_backtest: the run, its
                        \* trades and the stored backtest records
    strength,           \* _calculate_strength: the last call and its result
    indicators,         \* _check_indicator_conditions: the last call and its
                        \* verdict
    positions           \* SignalMatcher.update_active_positions: the
                        \* signal_results rows and the workers on them

\* The variables of the indicator gate and of the position workers.
moreVars == <<indicators, positions>>

\* The variables of the parts that do not touch the signal tables.
auxVars == <<reparse, patterns, singletons, backtest, strength, moreVars>>

vars == <<signals, events, consensus_signals, began, rules, candles, last_call,
          det, messages, batch, auxVars>>

\* ------------------------------------------------------------- small helpers
Min(S) == CHOOSE x \in S : \A y \in S : x <= y
Max(S) == CHOOSE x \in S : \A y \in S : x >= y

\* The elements of a finite set of integers as an ascending sequence.
RECURSIVE SetToSeq(_)
SetToSeq(S) == IF S = {} THEN <<>> ELSE <<Min(S)>> \o SetToSeq(S \ {Min(S)})

\* Python truthiness of an optional string: None and "" are false.
Truthy(s) == s # NULL /\ s # ""

\* str.upper() on the ticker spellings the model uses.
Upper(s) == CASE s = "abc" -> "ABC" [] s = "xyz" -> "XYZ" [] OTHER -> s

\* dict.get(key, default) on a structured (JSON) value.
Get(d, key, default) == IF key \in DOMAIN d THEN d[key] ELSE default

\* ------------------------------------------------------------------ inputs
Tickers == {"ABC", "XYZ"}
Times == 0 .. MaxTime

\* signal_data as Database.save_signal receives it.  The columns the model
\* keeps: ticker, direction, signal_type, author, timestamp, figi and
\* raw_message_id (0: none).
Sig(ticker, direction, type, author, ts, figi) ==
    [ticker |-> ticker, direction |-> direction, signal_type |-> type,
     author |-> author, timestamp |-> ts, figi |-> figi, raw_message_id |-> 0]

SignalInputs ==
    {Sig("ABC", "long", "entry", a, t, NULL) : a \in {"A", "B"}, t \in Times}
    \cup {Sig("ABC", d, "entry", a, 1, NULL) :
            d \in {"short"}, a \in {"A", "B"}}
    \cup {Sig("ABC", "long", "entry", "", 1, NULL),
          Sig("ABC", "long", "entry", NULL, 1, NULL),
          Sig("ABC", NULL, "entry", "A", 1, NULL),
          Sig("ABC", "long", "exit", "A", 1, NULL),
          Sig("XYZ", "long", "entry", "A", 1, NULL),
          Sig("ABC", "long", "entry", "A", 1, "F1")}

\* consensus_rules rows.
Rule(id, active, priority, min_traders, window, strict, tf, df, ic) ==
    [id |-> id, is_active |-> active, priority |-> priority,
     min_traders |-> min_traders, window_minutes |-> window,
     strict_consensus |-> strict, ticker_filter |-> tf,
     direction_filter |-> df, indicator_conditions |-> ic]

NoConditions == <<>>
RsiBand == [rsi |-> [enabled |-> TRUE, min |-> 30, max |-> 70]]
RsiBandNoFlag == [rsi |-> [min |-> 30, max |-> 70]]

RuleSets ==
    { {},
      {Rule("strict", TRUE, 10, 2, 2, TRUE, <<>>, NULL, NoConditions)},
      {Rule("loose", TRUE, 10, 2, 2, FALSE, <<>>, NULL, NoConditions)},
      {Rule("narrow", TRUE, 10, 2, 1, TRUE, <<>>, NULL, NoConditions),
       Rule("loose", TRUE, 5, 2, 3, FALSE, <<>>, NULL, NoConditions)},
      {Rule("off", FALSE, 20, 1, 10, FALSE, <<>>, NULL, NoConditions),
       Rule("xyz", TRUE, 10, 1, 2, TRUE, <<"xyz">>, NULL, NoConditions),
       Rule("shorts", TRUE, 10, 2, 2, FALSE, <<>>, "short", NoConditions)},
      {Rule("rsi", TRUE, 10, 2, 2, TRUE, <<>>, NULL, RsiBand)},
      {Rule("rsinoflag", TRUE, 10, 2, 2, TRUE, <<>>, NULL, RsiBandNoFlag)} }

\* The hourly candles of an instrument, all older than every signal: how many
\* there are, the latest RSI(14) value TechnicalIndicators computes on them
\* (rsi_nan when avg_gain = avg_loss = 0) and the derived categorical signals.
History(n, rsi) ==
    [n |-> n, rsi |-> rsi, rsi_nan |-> FALSE,
     signals |-> [macd |-> "bullish", bollinger |-> "within_bands",
                  obv |-> "neutral"]]

Figis == {"F1"}
Workers == {"w1", "w2"}
\* instruments: ticker -> FIGI
InstrumentFigi(ticker) == IF ticker = "ABC" THEN "F1" ELSE NULL

CandleSets ==
    {[f \in Figis |-> History(n, 80)] : n \in {29, 30}}
    \cup {[f \in Figis |-> History(40, r)] : r \in {20, 50}}
    \cup {[f \in Figis |-> [History(40, 0) EXCEPT !.rsi_nan = TRUE]]}

\* ---------------------------------------------------------------- detector

\* The window query without its signal_type == 'entry' filter.
WindowSignalsAnyType(sigs, signal, window_minutes) ==
    {i \in DOMAIN sigs :
        /\ sigs[i].ticker = signal.ticker
        /\ 2 * sigs[i].timestamp >= 2 * signal.timestamp - window_minutes
        /\ 2 * sigs[i].timestamp <= 2 * signal.timestamp + window_minutes
        /\ sigs[i].direction # NULL}

\* The window query reaching window_minutes to each side instead of half.
WindowSignalsFullWidth(sigs, signal, window_minutes) ==
    {i \in DOMAIN sigs :
        /\ sigs[i].ticker = signal.ticker
        /\ sigs[i].signal_type = "entry"
        /\ sigs[i].timestamp >= signal.timestamp - window_minutes
        /\ sigs[i].timestamp <= signal.timestamp + window_minutes
        /\ sigs[i].direction # NULL}

\* _find_consensus_window, the window query: entry signals on the trigger's
\* ticker with a direction, within window_minutes / 2 of the trigger.
WindowSignals(sigs, signal, window_minutes) ==
    {i \in DOMAIN sigs :
        /\ sigs[i].ticker = signal.ticker
        /\ sigs[i].signal_type = "entry"
        /\ 2 * sigs[i].timestamp >= 2 * signal.timestamp - window_minutes
        /\ 2 * sigs[i].timestamp <= 2 * signal.timestamp + window_minutes
        /\ sigs[i].direction # NULL}

\* _group_by_direction
GroupByDirection(sigs, W) ==
    [d \in {sigs[i].direction : i \in W} |-> {i \in W : sigs[i].direction = d}]

\* The direction chosen with the strict branch left out.
ConsensusDirectionsDominant(groups, strict_consensus) ==
    {d \in DOMAIN groups :
        \A e \in DOMAIN groups :
            Cardinality(groups[d]) >= Cardinality(groups[e])}

\* The direction _find_consensus_window settles on: the only one in strict
\* mode (none when they are mixed), else a largest group; a tie goes to the
\* group met first, which is the query's row order.  No group at all makes
\* list(...)[0] or max(...) raise, which check_new_signal_sync swallows.
ConsensusDirections(groups, strict_consensus) ==
    IF strict_consensus
    THEN IF Cardinality(DOMAIN groups) > 1 THEN {} ELSE DOMAIN groups
    ELSE {d \in DOMAIN groups :
            \A e \in DOMAIN groups :
                Cardinality(groups[d]) >= Cardinality(groups[e])}

\* The author set without the "if s.author" filter.
UniqueAuthorsUnfiltered(sigs, S) == {sigs[i].author : i \in S}

\* unique_authors = set(s.author for s in consensus_signals if s.author)
UniqueAuthors(sigs, S) == {a \in {sigs[i].author : i \in S} : Truthy(a)}

\* The instrument the candle query resolves the ticker to: LIMIT 1 of the
\* candles joined to parsed_signals on ParsedSignal.figi with that ticker.
CandleFigis(sigs, cndl, ticker) ==
    {f \in DOMAIN cndl :
        /\ cndl[f].n > 0
        /\ \E i \in DOMAIN sigs : sigs[i].ticker = ticker /\ sigs[i].figi = f}

\* One condition of the loop over conditions.items(): TRUE when it lets the
\* window through.
ConditionHolds(name, condition, history) ==
    IF ~Get(condition, "enabled", FALSE) THEN TRUE
    ELSE IF name = "rsi"
    THEN IF history.rsi_nan THEN TRUE
         ELSE /\ ~("min" \in DOMAIN condition /\ history.rsi < condition.min)
              /\ ~("max" \in DOMAIN condition /\ history.rsi > condition.max)
    ELSE IF name \in {"macd", "bollinger", "obv"}
    THEN ~("signal" \in DOMAIN condition
            /\ history.signals[name] # condition.signal)
    ELSE TRUE

\* _check_indicator_conditions on the candles of one resolved instrument
\* (NULL: the subquery found none).
IndicatorsPass(cndl, figi, conditions) ==
    IF DOMAIN conditions = {} THEN TRUE
    ELSE IF figi = NULL THEN TRUE
    ELSE LET n == IF cndl[figi].n < CandleLimit THEN cndl[figi].n
                  ELSE CandleLimit
         IN  IF n < MinCandles THEN TRUE
             ELSE \A name \in DOMAIN conditions :
                    ConditionHolds(name, conditions[name], cndl[figi])

\* _check_indicator_conditions: the verdicts it can reach.
CheckIndicatorConditions(sigs, cndl, ticker, conditions) ==
    LET figis == CandleFigis(sigs, cndl, ticker)
    IN  IF figis = {} THEN {IndicatorsPass(cndl, NULL, conditions)}
        ELSE {IndicatorsPass(cndl, f, conditions) : f \in figis}

NoConsensus == [found |-> FALSE]

\* _find_consensus_window: the results it can return (NoConsensus is None).
\* conditions is rule.indicator_conditions, NoConditions without a rule.
FindConsensusWindow(sigs, cndl, signal, window_minutes, min_traders, strict_consensus, conditions) ==
    LET W == WindowSignals(sigs, signal, window_minutes)
        groups == GroupByDirection(sigs, W)
        dirs == ConsensusDirections(groups, strict_consensus)
        Result(d, pass) ==
            IF Cardinality(UniqueAuthors(sigs, groups[d])) < min_traders
            THEN NoConsensus
            ELSE IF DOMAIN conditions # {} /\ ~pass THEN NoConsensus
            ELSE [found |-> TRUE, signals |-> groups[d], direction |-> d,
                  unique_authors |-> UniqueAuthors(sigs, groups[d]),
                  window_minutes |-> window_minutes]
    IN  IF Cardinality(W) < min_traders THEN {NoConsensus}
        ELSE IF dirs = {} THEN {NoConsensus}
        ELSE {Result(d, pass) :
                d \in dirs,
                pass \in CheckIndicatorConditions(sigs, cndl, signal.ticker,
                                                  conditions)}

\* The consensus_events row with the detector's default window written
\* instead of the window the evaluation used.
ConsensusEventDefaultWindow(sigs, trigger_id, data, rule_id) ==
    [ticker |-> sigs[trigger_id].ticker,
     direction |-> data.direction,
     traders_count |-> Cardinality(data.unique_authors),
     window_minutes |-> default_window_minutes,
     rule_id |-> rule_id,
     first_signal_at |-> Min({sigs[i].timestamp : i \in data.signals}),
     last_signal_at |-> Max({sigs[i].timestamp : i \in data.signals}),
     status |-> "active",
     authors |-> data.unique_authors,
     trigger_signal_id |-> trigger_id,
     total_signals |-> Cardinality(data.signals)]

\* _create_consensus_event: the consensus_events row.
ConsensusEvent(sigs, trigger_id, data, rule_id) ==
    [ticker |-> sigs[trigger_id].ticker,
     direction |-> data.direction,
     traders_count |-> Cardinality(data.unique_authors),
     window_minutes |-> data.window_minutes,
     rule_id |-> rule_id,
     first_signal_at |-> Min({sigs[i].timestamp : i \in data.signals}),
     last_signal_at |-> Max({sigs[i].timestamp : i \in data.signals}),
     status |-> "active",
     authors |-> data.unique_authors,
     trigger_signal_id |-> trigger_id,
     total_signals |-> Cardinality(data.signals)]

\* _create_consensus_event: the consensus_signals rows of event consensus_id.
MemberRows(consensus_id, trigger_id, data) ==
    LET ids == SetToSeq(data.signals)
    IN  [k \in 1 .. Len(ids) |->
            [consensus_id |-> consensus_id, signal_id |-> ids[k],
             is_initiator |-> (ids[k] = trigger_id)]]

\* The rules query ordered by ascending priority.
RuleOrdersAscending(rls) ==
    LET active == {r \in rls : r.is_active}
        n == Cardinality(active)
    IN  {o \in [1 .. n -> active] :
            /\ \A i, j \in 1 .. n : i # j => o[i] # o[j]
            /\ \A i, j \in 1 .. n : i < j => o[i].priority <= o[j].priority}

\* The rules query: active rules, ORDER BY priority DESC (ties in any order).
RuleOrders(rls) ==
    LET active == {r \in rls : r.is_active}
        n == Cardinality(active)
    IN  {o \in [1 .. n -> active] :
            /\ \A i, j \in 1 .. n : i # j => o[i] # o[j]
            /\ \A i, j \in 1 .. n : i < j => o[i].priority >= o[j].priority}

\* The ticker and direction gates of the rule loop.
RuleAccepts(rule, signal) ==
    /\ (Len(rule.ticker_filter) > 0
            => Upper(signal.ticker) \in
                 {Upper(rule.ticker_filter[k]) :
                     k \in 1 .. Len(rule.ticker_filter)})
    /\ (Truthy(rule.direction_filter)
            => signal.direction = rule.direction_filter)

\* The rule loop from position k of the ordered rules: the (rule_id, data)
\* pairs the call can end with; data = NoConsensus when no rule fires.
RECURSIVE ApplyRules(_, _, _, _, _)
ApplyRules(sigs, cndl, signal, order, k) ==
    IF k > Len(order) THEN {[rule_id |-> NULL, data |-> NoConsensus]}
    ELSE IF ~RuleAccepts(order[k], signal)
    THEN ApplyRules(sigs, cndl, signal, order, k + 1)
    ELSE LET found == FindConsensusWindow(sigs, cndl, signal,
                          order[k].window_minutes, order[k].min_traders,
                          order[k].strict_consensus,
                          order[k].indicator_conditions)
         IN  {[rule_id |-> order[k].id, data |-> d] :
                 d \in {x \in found : x.found}}
             \cup (IF NoConsensus \in found
                   THEN ApplyRules(sigs, cndl, signal, order, k + 1)
                   ELSE {})

\* check_new_signal_sync after its guards: what the rules (or the defaults,
\* when no rule is active) make of the signal.
Evaluate(sigs, cndl, rls, signal) ==
    IF {r \in rls : r.is_active} = {}
    THEN {[rule_id |-> NULL, data |-> d] :
            d \in FindConsensusWindow(sigs, cndl, signal,
                      default_window_minutes, default_min_traders,
                      default_strict_consensus, NoConditions)}
    ELSE UNION {ApplyRules(sigs, cndl, signal, o, 1) : o \in RuleOrders(rls)}

\* The guards of check_new_signal_sync: the signal is an entry and has no
\* consensus_signals row yet.
Eligible(sigs, cs, signal_id) ==
    /\ signal_id \in DOMAIN sigs
    /\ sigs[signal_id].signal_type = "entry"
    /\ ~\E k \in DOMAIN cs : cs[k].signal_id = signal_id

\* check_new_signal_sync as one transaction: the outcomes (rule_id, data) of
\* a call on signal_id; data = NoConsensus when it creates nothing.
Detect(sigs, cs, cndl, rls, signal_id) ==
    IF ~Eligible(sigs, cs, signal_id)
    THEN {[rule_id |-> NULL, data |-> NoConsensus]}
    ELSE Evaluate(sigs, cndl, rls, sigs[signal_id])

\* --------------------------------------------------------------- the state

\* The rules and candles a run starts from: every rule set on one candle
\* history, and the rule sets with indicator conditions on each history.
Scenarios ==
    {[rules |-> rs, candles |-> [f \in Figis |-> History(30, 80)]] :
        rs \in RuleSets}
    \cup {[rules |-> rs, candles |-> c] :
            rs \in {x \in RuleSets :
                      \E r \in x : DOMAIN r.indicator_conditions # {}},
            c \in CandleSets}

Idle == [pc |-> "idle"]

\* The stats dict of parse_all_unprocessed_messages; errors holds the
\* message_id of each entry (0 for the entry of the outer handler).
ZeroStats ==
    [total_processed |-> 0, successful_parses |-> 0, failed_parses |-> 0,
     trading_messages |-> 0, non_trading_messages |-> 0, errors |-> <<>>]

NoBatch == [pc |-> "idle", unprocessed |-> <<>>, i |-> 0, stats |-> ZeroStats]

\* The threads that share the process-wide objects.
Threads == {"t1", "t2"}

\* parsing_patterns rows of one category, by id; a row's priority.
PatternIds == 1 .. MaxPatterns
PatternPriority(p) == 10 * p

\* PatternManager.__init__ over a table holding every pattern: db is the
\* set of active rows, seen every content the table has had, cache the list
\* under the category's key (empty: no such key, a key is made on its first
\* append).
NoPatterns ==
    [db |-> PatternIds, seen |-> {PatternIds}, cache |-> <<>>,
     loaded |-> FALSE, th |-> [t \in Threads |-> [pc |-> "idle"]]]

\* The module-level consensus_detector_instance and backtester_instance (0:
\* None, else the number of the object), _backtester_lock (NULL: free, else
\* its holder), how many objects of each class have been constructed, and
\* each thread's place in a getter.
Getters == {"detector", "backtester"}
NoSingletons ==
    [instance |-> [g \in Getters |-> 0], lock |-> NULL,
     made |-> [g \in Getters |-> 0],
     th |-> [t \in Threads |-> [pc |-> "idle"]]]

\* reparse_all_messages_task before it is started.
NoReparse ==
    [pc |-> "idle", page |-> <<>>, i |-> 0, total_parsed |-> 0,
     total_failed |-> 0, handled |-> <<>>]

\* The backtester before any run: the hourly candles at and after the
\* signals (per FIGI; the candles variable holds the history before them),
\* the stored ConsensusBacktest rows, the number of run_backtest calls and
\* how the last one ended.
NoBacktest ==
    [bars |-> [f \in Figis |-> {}], records |-> <<>>, n |-> 0,
     run |-> [outcome |-> "none"]]

\* _calculate_strength before any call.
NoStrength == [pc |-> "idle"]

\* _check_indicator_conditions before any call.
NoIndicators == [pc |-> "idle"]

\* The signal_results rows, by id, and what the exit checks of
\* update_active_positions can find for a position.
PositionIds == 1 .. MaxPositions
ExitResults == {"none", "take_profit", "stop_loss", "timeout"}

\* Every signal_results row active, as save_signal_result stores it
\* (closed_by: the workers whose update closed the row), no row lock held
\* (NULL: free, else the holder) and no worker inside
\* update_active_positions.
NoPositions ==
    [rows |-> [r \in PositionIds |->
                  [status |-> "active", exit_reason |-> NULL,
                   closed_by |-> {}]],
     lock |-> [r \in PositionIds |-> NULL],
     w |-> [t \in Threads |-> [pc |-> "idle"]]]

InitAux ==
    /\ reparse = NoReparse
    /\ patterns = NoPatterns
    /\ singletons = NoSingletons
    /\ backtest = NoBacktest
    /\ strength = NoStrength
    /\ indicators = NoIndicators
    /\ positions = NoPositions

Init ==
    /\ signals = <<>>
    /\ events = <<>>
    /\ consensus_signals = <<>>
    /\ began = <<>>
    /\ last_call = 0
    /\ det = [w \in Workers |-> Idle]
    /\ messages = <<>>
    /\ batch = NoBatch
    /\ \E sc \in Scenarios : rules = sc.rules /\ candles = sc.candles
    /\ InitAux

\* What a committed detector call leaves in the database: out is one of
\* Detect's outcomes for trigger signal_id, seen is the number of events
\* that were committed when the call began.
Commit(sigs, signal_id, out, seen) ==
    IF out.data.found
    THEN /\ events' = Append(events,
                         ConsensusEvent(sigs, signal_id, out.data, out.rule_id))
         /\ consensus_signals' = consensus_signals
                \o MemberRows(Len(events) + 1, signal_id, out.data)
         /\ began' = Append(began, seen)
    ELSE UNCHANGED <<events, consensus_signals, began>>

\* Database.save_signal
SaveSignal(d) ==
    /\ Len(signals) < MaxSignals
    /\ signals' = Append(signals, d)
    /\ last_call' = 0
    /\ UNCHANGED <<events, consensus_signals, began, rules, candles, det,
                   messages, batch, auxVars>>

\* ConsensusDetector.check_new_signal_sync, alone on the database
CheckNewSignal(signal_id) ==
    /\ Len(events) < MaxEvents
    /\ \E out \in Detect(signals, consensus_signals, candles, rules, signal_id) :
          Commit(signals, signal_id, out, Len(events))
    /\ last_call' = signal_id
    /\ UNCHANGED <<signals, rules, candles, det, messages, batch, auxVars>>

Next ==
    \/ \E d \in SignalInputs : SaveSignal(d)
    \/ \E id \in DOMAIN signals : CheckNewSignal(id)

Spec == Init /\ [][Next]_vars

\* Database.save_signal followed by check_new_signal_sync on the new signal:
\* the order in which the ingest path calls them.
SaveAndCheck(d) ==
    LET sigs == Append(signals, d)
    IN  /\ Len(signals) < MaxSignals
        /\ Len(events) < MaxEvents
        /\ signals' = sigs
        /\ \E out \in Detect(sigs, consensus_signals, candles, rules, Len(sigs)) :
              Commit(sigs, Len(sigs), out, Len(events))
        /\ last_call' = Len(sigs)
        /\ UNCHANGED <<rules, candles, det, messages, batch, auxVars>>

NextPipeline == \E d \in SignalInputs : SaveAndCheck(d)

SpecPipeline == Init /\ [][NextPipeline]_vars

\* check_new_signal_sync, statement by statement, as one of several calls
\* that share the database under read committed: each query sees what is
\* committed when it runs; the inserts become visible at the commit.

\* The session opens, the signal is loaded and looked up in consensus_signals.
DetBegin(w, signal_id) ==
    /\ det[w].pc = "idle"
    /\ Len(events) + Cardinality({v \in Workers : det[v].pc # "idle"})
          < MaxEvents
    /\ det' = [det EXCEPT ![w] =
                  IF Eligible(signals, consensus_signals, signal_id)
                  THEN [pc |-> "evaluate", signal_id |-> signal_id,
                        seen |-> Len(events)]
                  ELSE Idle]
    /\ UNCHANGED <<signals, events, consensus_signals, began, rules, candles,
                   last_call, messages, batch, auxVars>>

\* The rules query and the window queries of the rule loop.
DetEvaluate(w) ==
    /\ det[w].pc = "evaluate"
    /\ \E out \in Evaluate(signals, candles, rules, signals[det[w].signal_id]) :
          det' = [det EXCEPT ![w] =
                    IF out.data.found
                    THEN [pc |-> "create", signal_id |-> det[w].signal_id,
                          seen |-> det[w].seen, out |-> out]
                    ELSE Idle]
    /\ UNCHANGED <<signals, events, consensus_signals, began, rules, candles,
                   last_call, messages, batch, auxVars>>

\* _create_consensus_event: the event and member inserts, and the commit.
DetCreate(w) ==
    /\ det[w].pc = "create"
    /\ Commit(signals, det[w].signal_id, det[w].out, det[w].seen)
    /\ det' = [det EXCEPT ![w] = Idle]
    /\ last_call' = 0
    /\ UNCHANGED <<signals, rules, candles, messages, batch, auxVars>>

NextConcurrent ==
    \/ \E d \in SignalInputs : SaveSignal(d)
    \/ \E w \in Workers, id \in DOMAIN signals : DetBegin(w, id)
    \/ \E w \in Workers : DetEvaluate(w)
    \/ \E w \in Workers : DetCreate(w)

\* Concurrent calls, under the fallback parameters and under one rule.
InitConcurrent ==
    /\ Init
    /\ \/ rules = {}
       \/ \E r \in rules : r.id = "loose" /\ Cardinality(rules) = 1

SpecConcurrent == InitConcurrent /\ [][NextConcurrent]_vars

\* ---------------------------------------------------------- batch parsing

\* What the pattern sets find in a message text: whether it is blank, whether
\* it shows trading intent, the ticker and the author they extract (NULL:
\* none), what an operation_exit match mentions (NULL: no match, "": neither
\* side), and the direction patterns and loose direction words that hit.
Text(blank, trading, ticker, author, exit, long, short) ==
    [blank |-> blank, trading |-> trading, ticker |-> ticker,
     author |-> author, exit |-> exit, long |-> long, short |-> short]

MessageTexts ==
    {Text(TRUE, FALSE, NULL, NULL, NULL, FALSE, FALSE),
     Text(FALSE, FALSE, NULL, NULL, NULL, FALSE, FALSE),
     Text(FALSE, TRUE, NULL, "A", NULL, TRUE, FALSE),
     Text(FALSE, TRUE, "ABC", "A", NULL, TRUE, FALSE),
     Text(FALSE, TRUE, "ABC", "B", NULL, TRUE, TRUE),
     Text(FALSE, TRUE, "ABC", NULL, NULL, FALSE, TRUE),
     Text(FALSE, TRUE, "ABC", "B", "long", TRUE, FALSE),
     Text(FALSE, TRUE, "ABC", "A", NULL, FALSE, FALSE)}

\* MessageParser._analyze_operation: <<operation_type, direction>>
AnalyzeOperation(text) ==
    IF text.exit # NULL
    THEN <<"exit", IF text.exit \in {"long", "short"} THEN text.exit ELSE "mixed">>
    ELSE IF text.long THEN <<"entry", "long">>
    ELSE IF text.short THEN <<"entry", "short">>
    ELSE <<"entry", "mixed">>

\* MessageParser.parse_raw_message on a message dict of get_unparsed_messages
\* (which carries no author_username, so the author falls back to "Unknown").
ParseRawMessage(message) ==
    LET text == message.text
        op == AnalyzeOperation(text)
    IN  IF text.blank
        THEN [success |-> FALSE, error |-> "Empty message text"]
        ELSE IF ~text.trading
        THEN [success |-> FALSE, error |-> "Not a trading message"]
        ELSE IF text.ticker = NULL
        THEN [success |-> FALSE, error |-> "No ticker found"]
        ELSE [success |-> TRUE, error |-> NULL,
              signal_data |->
                [ticker |-> Upper(text.ticker), direction |-> op[2],
                 signal_type |-> op[1],
                 author |-> IF text.author # NULL THEN text.author
                            ELSE "Unknown",
                 timestamp |-> message.timestamp, figi |-> NULL,
                 raw_message_id |-> message.id]]

\* Database.get_unparsed_messages(limit): the pages it can return, rows with
\* is_processed = false by timestamp descending (ties in any order).
GetUnparsedMessages(msgs, limit) ==
    LET U == {m \in DOMAIN msgs : ~msgs[m].is_processed}
        n == IF Cardinality(U) < limit THEN Cardinality(U) ELSE limit
    IN  {[k \in 1 .. n |->
            [id |-> o[k], text |-> msgs[o[k]].text,
             timestamp |-> msgs[o[k]].timestamp]] :
         o \in {q \in [1 .. n -> U] :
                  /\ \A i, j \in 1 .. n : i # j => q[i] # q[j]
                  /\ \A i, j \in 1 .. n :
                        i < j => msgs[q[i]].timestamp >= msgs[q[j]].timestamp
                  /\ \A m \in U \ {q[i] : i \in 1 .. n} : \A i \in 1 .. n :
                        msgs[q[i]].timestamp >= msgs[m].timestamp}}

\* Database.mark_message_processed(message_id) called with the keyword
\* arguments kwargs: its signature takes none, so any makes the call raise
\* TypeError; otherwise the row's is_processed becomes true.
MarkMessageProcessed(msgs, message_id, kwargs) ==
    IF DOMAIN kwargs # {}
    THEN [raised |-> TRUE, messages |-> msgs]
    ELSE [raised |-> FALSE,
          messages |-> [msgs EXCEPT ![message_id].is_processed = TRUE]]

\* The scraper's Database.save_message of a new message.
SaveMessage(text, ts) ==
    /\ Len(messages) < MaxMessages
    /\ messages' = Append(messages,
                      [text |-> text, timestamp |-> ts,
                       is_processed |-> FALSE, parse_success |-> NULL])
    /\ last_call' = 0
    /\ UNCHANGED <<signals, events, consensus_signals, began, rules, candles,
                   det, batch, auxVars>>

\* parse_all_unprocessed_messages(limit) up to its loop; limit 0 is None.
ParseStart(limit) ==
    /\ batch.pc \in {"idle", "done"}
    /\ \E page \in GetUnparsedMessages(messages,
                       IF limit = 0 THEN BatchLimit ELSE limit) :
          batch' = [pc |-> IF page = <<>> THEN "done" ELSE "loop",
                    unprocessed |-> page, i |-> 1, stats |-> ZeroStats]
    /\ UNCHANGED <<signals, events, consensus_signals, began, rules, candles,
                   last_call, det, messages, auxVars>>

\* The dict the outer handler of parse_all_unprocessed_messages returns.
FailedStats == [ZeroStats EXCEPT !.errors = <<0>>]

\* One pass of the loop of parse_all_unprocessed_messages: parse, save, mark
\* and detect for one message, its except clause, and the outer handler when
\* the except clause itself raises.
ParseStep ==
    /\ batch.pc = "loop"
    /\ Len(signals) < MaxSignals
    /\ Len(events) < MaxEvents
    /\ LET message == batch.unprocessed[batch.i]
           result == ParseRawMessage(message)
           sigs == IF result.success
                   THEN Append(signals, result.signal_data) ELSE signals
           st == batch.stats
           counted ==
               IF result.success
               THEN [st EXCEPT !.total_processed = @ + 1,
                               !.successful_parses = @ + 1,
                               !.trading_messages = @ + 1]
               ELSE IF result.error # "Not a trading message"
               THEN [st EXCEPT !.total_processed = @ + 1,
                               !.failed_parses = @ + 1,
                               !.errors = Append(@, message.id)]
               ELSE [st EXCEPT !.total_processed = @ + 1,
                               !.failed_parses = @ + 1,
                               !.non_trading_messages = @ + 1]
           mark == MarkMessageProcessed(messages, message.id,
                       [parse_success |-> result.success])
           handled == [counted EXCEPT !.errors = Append(@, message.id)]
           remark == MarkMessageProcessed(messages, message.id,
                         [parse_success |-> FALSE])
           last == batch.i = Len(batch.unprocessed)
           Continue(stats) ==
               batch' = [batch EXCEPT !.pc = IF last THEN "done" ELSE "loop",
                                      !.i = IF last THEN @ ELSE @ + 1,
                                      !.stats = stats]
       IN  /\ signals' = sigs
           /\ last_call' = IF ~mark.raised /\ result.success
                            THEN Len(sigs) ELSE 0
           /\ IF ~mark.raised
              THEN /\ messages' = mark.messages
                   /\ Continue(counted)
                   /\ IF result.success
                      THEN \E out \in Detect(sigs, consensus_signals, candles,
                                            rules, Len(sigs)) :
                              Commit(sigs, Len(sigs), out, Len(events))
                      ELSE UNCHANGED <<events, consensus_signals, began>>
              ELSE /\ UNCHANGED <<events, consensus_signals, began>>
                   /\ IF ~remark.raised
                      THEN /\ messages' = remark.messages
                           /\ Continue(handled)
                      ELSE /\ messages' = messages
                           /\ batch' = [batch EXCEPT !.pc = "done",
                                                     !.stats = FailedStats]
    /\ UNCHANGED <<rules, candles, det, auxVars>>

NextParse ==
    \/ \E text \in MessageTexts, ts \in Times : SaveMessage(text, ts)
    \/ \E limit \in 0 .. MaxMessages : ParseStart(limit)
    \/ ParseStep

\* The batch service under the detector's fallback parameters.
InitParse == Init /\ rules = {}

SpecParse == InitParse /\ [][NextParse]_vars

\* ------------------------------------------------------------ full reparse

\* reparse_all_messages_task: batch_size
ReparseBatchSize == 100

\* The row update the task runs on one message after handling it: the
\* message is loaded by id and, when found, gets is_processed = true and
\* parse_success = ok.
ReparseMarkSuccessOnly(msgs, message_id, ok) ==
    IF message_id \in DOMAIN msgs /\ ok
    THEN [msgs EXCEPT ![message_id].is_processed = TRUE,
                      ![message_id].parse_success = "true"]
    ELSE msgs

ReparseMark(msgs, message_id, ok) ==
    IF message_id \in DOMAIN msgs
    THEN [msgs EXCEPT ![message_id].is_processed = TRUE,
                      ![message_id].parse_success =
                          IF ok THEN "true" ELSE "false"]
    ELSE msgs

\* The task up to its loop: with force the parsed signals are deleted; every
\* raw message gets is_processed = false and parse_success = NULL.
ReparseStart(force) ==
    /\ reparse.pc \in {"idle", "done"}
    /\ signals' = IF force THEN <<>> ELSE signals
    /\ messages' = [m \in DOMAIN messages |->
                      [messages[m] EXCEPT !.is_processed = FALSE,
                                          !.parse_success = NULL]]
    /\ reparse' = [NoReparse EXCEPT !.pc = "pull"]
    /\ last_call' = 0
    /\ UNCHANGED <<events, consensus_signals, began, rules, candles, det,
                   batch, patterns, singletons, backtest, strength,
                moreVars>>

\* The head of the while loop: the next page, or the end of the task.
ReparsePull ==
    /\ reparse.pc = "pull"
    /\ \E page \in GetUnparsedMessages(messages, ReparseBatchSize) :
          reparse' = [reparse EXCEPT
                         !.pc = IF page = <<>> THEN "done" ELSE "loop",
                         !.page = page, !.i = 1]
    /\ UNCHANGED <<signals, events, consensus_signals, began, rules, candles,
                   last_call, det, messages, batch, patterns, singletons,
                   backtest, strength,
                moreVars>>

\* One pass of the for loop: parse, save the signal, mark the message; the
\* except clause when save_signal raises (saved = FALSE).
ReparseStep ==
    /\ reparse.pc = "loop"
    /\ LET msg == reparse.page[reparse.i]
           result == ParseRawMessage(msg)
           last == reparse.i = Len(reparse.page)
       IN  \E saved \in {FALSE} \cup {x \in {TRUE} : Len(signals) < MaxSignals} :
              LET ok == result.success /\ saved
              IN  /\ signals' = IF ok THEN Append(signals, result.signal_data)
                                 ELSE signals
                  /\ messages' = ReparseMark(messages, msg.id, ok)
                  /\ reparse' = [reparse EXCEPT
                         !.pc = IF last THEN "pull" ELSE "loop",
                         !.i = IF last THEN @ ELSE @ + 1,
                         !.total_parsed = IF ok THEN @ + 1 ELSE @,
                         !.total_failed = IF ok THEN @ ELSE @ + 1,
                         !.handled = Append(@, msg.id)]
    /\ last_call' = 0
    /\ UNCHANGED <<events, consensus_signals, began, rules, candles, det,
                   batch, patterns, singletons, backtest, strength,
                moreVars>>

NextReparse ==
    \/ \E text \in MessageTexts, ts \in Times : SaveMessage(text, ts)
    \/ \E force \in BOOLEAN : ReparseStart(force)
    \/ ReparsePull
    \/ ReparseStep

\* The task runs to its end once started: its steps are not held up forever.
SpecReparse ==
    InitParse /\ [][NextReparse]_vars
        /\ WF_vars(ReparsePull) /\ WF_vars(ReparseStep)

\* ------------------------------------------------------------ pattern cache

\* Database.get_all_patterns(active_only=True) for the category: the active
\* rows by priority descending.
RECURSIVE GetAllPatterns(_)
GetAllPatterns(db) ==
    IF db = {} THEN <<>>
    ELSE LET top == CHOOSE p \in db :
                        \A q \in db : PatternPriority(p) >= PatternPriority(q)
         IN  <<top>> \o GetAllPatterns(db \ {top})

\* list.sort(key=priority, reverse=True): a stable sort by insertion.
RECURSIVE SortByPriority(_)
SortByPriority(list) ==
    IF list = <<>> THEN <<>>
    ELSE LET rest == SortByPriority(Tail(list))
             x == Head(list)
             n == Cardinality({k \in DOMAIN rest :
                        PatternPriority(rest[k]) > PatternPriority(x)})
         IN  SubSeq(rest, 1, n) \o <<x>> \o SubSeq(rest, n + 1, Len(rest))

\* The other threads' view is unchanged by a step of patterns.
OnlyPatterns ==
    UNCHANGED <<signals, events, consensus_signals, began, rules, candles,
                last_call, det, messages, batch, reparse, singletons,
                backtest, strength,
                moreVars>>

\* A pattern is switched on or off in the table (never all of them off).
UpdatePatterns(S) ==
    /\ S # {} /\ S # patterns.db
    /\ patterns' = [patterns EXCEPT !.db = S, !.seen = @ \cup {S}]
    /\ OnlyPatterns

\* get_patterns enters _load_all_patterns and tests _cache_loaded.
GetCheck(t) ==
    /\ patterns.th[t].pc \in {"idle", "done"}
    /\ patterns' = [patterns EXCEPT !.th[t] =
                       [pc |-> IF patterns.loaded THEN "read" ELSE "query"]]
    /\ OnlyPatterns

\* _load_all_patterns: the query.
GetQuery(t) ==
    /\ patterns.th[t].pc = "query"
    /\ patterns' = [patterns EXCEPT !.th[t] =
                       [pc |-> "fill", all |-> GetAllPatterns(patterns.db),
                        k |-> 1]]
    /\ OnlyPatterns

\* _load_all_patterns: one pass of the loop that fills the cache.
GetFill(t) ==
    LET me == patterns.th[t]
    IN  /\ me.pc = "fill"
        /\ Len(patterns.cache) < MaxCacheLen
        /\ patterns' = [patterns EXCEPT
              !.cache = Append(@, me.all[me.k]),
              !.th[t] = IF me.k = Len(me.all) THEN [pc |-> "sort"]
                        ELSE [me EXCEPT !.k = @ + 1]]
        /\ OnlyPatterns

\* _load_all_patterns: the sort of every cached list.
GetSort(t) ==
    /\ patterns.th[t].pc = "sort"
    /\ patterns' = [patterns EXCEPT
          !.cache = SortByPriority(@),
          !.th[t] = [pc |-> "flag"]]
    /\ OnlyPatterns

\* _load_all_patterns: _cache_loaded = True.
GetFlag(t) ==
    /\ patterns.th[t].pc = "flag"
    /\ patterns' = [patterns EXCEPT !.loaded = TRUE,
                                    !.th[t] = [pc |-> "read"]]
    /\ OnlyPatterns

\* get_patterns: self._cache.get(category, []) and the returned list.
GetRead(t) ==
    /\ patterns.th[t].pc = "read"
    /\ patterns' = [patterns EXCEPT !.th[t] =
          [pc |-> "done", result |-> patterns.cache]]
    /\ OnlyPatterns

\* reload_patterns: self._cache.clear()
ReloadClear(t) ==
    /\ patterns.th[t].pc \in {"idle", "done"}
    /\ patterns' = [patterns EXCEPT !.cache = <<>>,
                                    !.th[t] = [pc |-> "unflag"]]
    /\ OnlyPatterns

\* reload_patterns: self._cache_loaded = False
ReloadFlag(t) ==
    /\ patterns.th[t].pc = "unflag"
    /\ patterns' = [patterns EXCEPT !.loaded = FALSE,
                                    !.th[t] = [pc |-> "idle"]]
    /\ OnlyPatterns

NextPatterns ==
    \/ \E S \in SUBSET PatternIds : UpdatePatterns(S)
    \/ \E t \in Threads : GetCheck(t)
    \/ \E t \in Threads : GetQuery(t)
    \/ \E t \in Threads : GetFill(t)
    \/ \E t \in Threads : GetSort(t)
    \/ \E t \in Threads : GetFlag(t)
    \/ \E t \in Threads : GetRead(t)
    \/ \E t \in Threads : ReloadClear(t)
    \/ \E t \in Threads : ReloadFlag(t)

SpecPatterns == InitParse /\ [][NextPatterns]_vars

\* --------------------------------------- pattern cache, calls in succession

\* get_patterns when _cache_loaded is not tested: every call loads.
GetPatternsAlwaysLoads(t, ok) ==
    /\ \A u \in Threads : patterns.th[u].pc \in {"idle", "done"}
    /\ LET cache == IF ok
                    THEN SortByPriority(patterns.cache
                                            \o GetAllPatterns(patterns.db))
                    ELSE patterns.cache
       IN  /\ Len(cache) <= MaxCacheLen
           /\ patterns' = [patterns EXCEPT
                 !.cache = cache, !.loaded = ok,
                 !.th[t] = [pc |-> "done", result |-> cache]]
    /\ OnlyPatterns

\* get_patterns of thread t run to its return: _load_all_patterns, which returns at once
\* when _cache_loaded is set, else appends the rows of the query to the
\* cache, sorts it and sets _cache_loaded, or, when the query raises (ok
\* FALSE), only sets _cache_loaded to False; then the list under the key.
GetPatterns(t, ok) ==
    /\ \A u \in Threads : patterns.th[u].pc \in {"idle", "done"}
    /\ LET loads == ~patterns.loaded
           cache == IF loads /\ ok
                    THEN SortByPriority(patterns.cache
                                            \o GetAllPatterns(patterns.db))
                    ELSE patterns.cache
       IN  /\ Len(cache) <= MaxCacheLen
           /\ patterns' = [patterns EXCEPT
                 !.cache = cache,
                 !.loaded = IF loads THEN ok ELSE TRUE,
                 !.th[t] = [pc |-> "done", result |-> cache]]
    /\ OnlyPatterns

\* reload_patterns run to its return; each thread keeps the list its last
\* get_patterns returned.
ReloadPatterns ==
    /\ \A u \in Threads : patterns.th[u].pc \in {"idle", "done"}
    /\ patterns' = [patterns EXCEPT !.cache = <<>>, !.loaded = FALSE]
    /\ OnlyPatterns

NextPatternCache ==
    \/ \E S \in SUBSET PatternIds : UpdatePatterns(S)
    \/ \E t \in Threads, ok \in BOOLEAN : GetPatterns(t, ok)
    \/ ReloadPatterns

SpecPatternCache == InitParse /\ [][NextPatternCache]_vars

\* --------------------------------------------------------------- singletons

OnlySingletons ==
    UNCHANGED <<signals, events, consensus_signals, began, rules, candles,
                last_call, det, messages, batch, reparse, patterns,
                backtest, strength,
                moreVars>>

\* get_consensus_detector / get_consensus_backtester: the first test of the
\* global.
GetterCheck(t, g) ==
    /\ singletons.th[t].pc \in {"idle", "done"}
    /\ singletons' = [singletons EXCEPT !.th[t] =
          [pc |-> IF singletons.instance[g] # 0 THEN "return"
                  ELSE IF g = "detector" THEN "construct" ELSE "lock",
           getter |-> g]]
    /\ OnlySingletons

\* get_consensus_backtester: with _backtester_lock, and the second test.
GetterLock(t) ==
    /\ singletons.th[t].pc = "lock"
    /\ singletons.lock = NULL
    /\ singletons' = [singletons EXCEPT
          !.lock = t,
          !.th[t].pc = IF singletons.instance["backtester"] # 0
                       THEN "unlock" ELSE "construct"]
    /\ OnlySingletons

\* The constructor call and the assignment to the global.
GetterConstruct(t) ==
    LET g == singletons.th[t].getter
    IN  /\ singletons.th[t].pc = "construct"
        /\ singletons' = [singletons EXCEPT
              !.made[g] = @ + 1,
              !.instance[g] = singletons.made[g] + 1,
              !.th[t].pc = IF g = "detector" THEN "return" ELSE "unlock"]
        /\ OnlySingletons

\* get_consensus_backtester: the end of the with block.
GetterUnlock(t) ==
    /\ singletons.th[t].pc = "unlock"
    /\ singletons' = [singletons EXCEPT !.lock = NULL,
                                        !.th[t].pc = "return"]
    /\ OnlySingletons

\* return <the global>
GetterReturn(t) ==
    /\ singletons.th[t].pc = "return"
    /\ singletons' = [singletons EXCEPT !.th[t] =
          [pc |-> "done", getter |-> singletons.th[t].getter,
           result |-> singletons.instance[singletons.th[t].getter]]]
    /\ OnlySingletons

NextSingletons ==
    \/ \E t \in Threads, g \in Getters : GetterCheck(t, g)
    \/ \E t \in Threads : GetterLock(t)
    \/ \E t \in Threads : GetterConstruct(t)
    \/ \E t \in Threads : GetterUnlock(t)
    \/ \E t \in Threads : GetterReturn(t)

SpecSingletons == InitParse /\ [][NextSingletons]_vars

\* -------------------------------------------------------------- backtester

\* The prices, capitals and percentages below are whole numbers for which
\* every product and quotient of _simulate_trade is a whole number too, so
\* its float arithmetic and its round(x, 2) are exact.

\* timedelta(hours=holding_hours) in the minutes signal timestamps are in.
HourMinutes == 60

\* ConsensusRule.id, the integer primary key run_backtest looks a rule up by.
RuleKey(id) ==
    CASE id = "strict" -> 1 [] id = "loose" -> 2 [] id = "narrow" -> 3
      [] id = "off" -> 4 [] id = "xyz" -> 5 [] id = "shorts" -> 6
      [] id = "rsi" -> 7 [] id = "rsinoflag" -> 8

\* The rule sets the backtests run against.
BacktestRuleSets ==
    {rs \in RuleSets : \E r \in rs : r.id \in {"strict", "off"}}

\* The signals saved before a backtest.
BacktestSignals ==
    {Sig("ABC", "long", "entry", "A", 0, NULL),
     Sig("ABC", "long", "entry", "B", 1, NULL),
     Sig("ABC", "long", "entry", "A", 2, NULL),
     Sig("ABC", "short", "entry", "A", 1, NULL),
     Sig("ABC", "short", "entry", "B", 1, NULL),
     Sig("XYZ", "long", "entry", "A", 1, NULL)}

\* One hourly Candle row.
Bar(time, high, low, close) ==
    [time |-> time, high |-> high, low |-> low, close |-> close]

\* The candle an entry is made on, and the hourly candles that can follow it:
\* one touching both levels of a 10 % trade, one touching only the upper,
\* one only the lower, one neither.
EntryBar(time) == Bar(time, 100, 100, 100)
BothBar(time) == Bar(time, 120, 80, 100)
UpBar(time) == Bar(time, 120, 100, 110)
DownBar(time) == Bar(time, 100, 80, 90)
FlatBar(time) == Bar(time, 105, 95, 105)

\* A candle beyond both levels of a 10 % long trade entered at 100.
FarBar(time) == Bar(time, 130, 120, 125)

\* The hourly candles a candle load can store, per instrument.
BarSeries ==
    {[f \in Figis |-> S] :
        S \in {{EntryBar(60)},
               {EntryBar(60), BothBar(120)},
               {EntryBar(60), UpBar(120)},
               {EntryBar(60), DownBar(120)},
               {EntryBar(60), FlatBar(120)},
               {EntryBar(60), FlatBar(120), BothBar(180)},
               {EntryBar(60), FarBar(180)},
               {EntryBar(60), UpBar(120), DownBar(180)},
               {EntryBar(60), DownBar(120), UpBar(180)},
               {EntryBar(60), FlatBar(120), Bar(180, 108, 98, 102)},
               {EntryBar(0), Bar(60, 120, 100, 100)}}}

NoBars == [f \in Figis |-> {}]

\* The arguments of run_backtest; tickers <<>> is None.
Params(rule_id, start, end, tp, sl, hours, capital, size) ==
    [rule_id |-> rule_id, start_date |-> start, end_date |-> end,
     tickers |-> <<>>, take_profit_pct |-> tp, stop_loss_pct |-> sl,
     holding_hours |-> hours, initial_capital |-> capital,
     position_size_pct |-> size]

BacktestInputs ==
    {Params(r, 0, MaxTime, 10, 10, h, 1000, 100) : r \in {1, 4}, h \in {1, 2, 3}}
    \cup {Params(1, 0, MaxTime, 10, 10, 2, 50, 100),
          Params(0, 0, MaxTime, 10, 10, 2, 1000, 100),
          Params(1, MaxTime, MaxTime, 10, 10, 2, 1000, 100),
          Params(1, 0, MaxTime, 0, 10, 2, 1000, 100),
          Params(1, 0, MaxTime, 10, 101, 2, 1000, 100),
          Params(1, 0, MaxTime, 10, 10, 0, 1000, 100),
          Params(1, 0, MaxTime, 10, 10, 2, 0, 100),
          Params(1, 0, MaxTime, 10, 10, 2, 1000, 0)}

\* run_backtest's input validation with the initial_capital test left out.
InvalidInputsNoCapital(p) ==
    \/ p.rule_id <= 0
    \/ p.start_date >= p.end_date
    \/ ~(0 < p.take_profit_pct /\ p.take_profit_pct <= 100)
    \/ ~(0 < p.stop_loss_pct /\ p.stop_loss_pct <= 100)
    \/ p.holding_hours <= 0
    \/ ~(0 < p.position_size_pct /\ p.position_size_pct <= 100)

\* run_backtest's input validation: TRUE when it raises ValueError.
InvalidInputs(p) ==
    \/ p.rule_id <= 0
    \/ p.start_date >= p.end_date
    \/ ~(0 < p.take_profit_pct /\ p.take_profit_pct <= 100)
    \/ ~(0 < p.stop_loss_pct /\ p.stop_loss_pct <= 100)
    \/ p.holding_hours <= 0
    \/ p.initial_capital <= 0
    \/ ~(0 < p.position_size_pct /\ p.position_size_pct <= 100)

\* The rule query: the rows with the given primary key (none or one).
RuleById(rls, rule_id) == {r \in rls : RuleKey(r.id) = rule_id}

\* The tickers the signal query is narrowed to: the argument, else the
\* rule's ticker_filter split on commas and stripped (not upper-cased).
BacktestTickers(p, rule) ==
    IF Len(p.tickers) > 0 THEN p.tickers ELSE rule.ticker_filter

\* The signal query: entry signals of the period, narrowed to the tickers.
PeriodSignals(sigs, p, rule) ==
    LET tickers == BacktestTickers(p, rule)
    IN  {i \in DOMAIN sigs :
            /\ sigs[i].timestamp >= p.start_date
            /\ sigs[i].timestamp <= p.end_date
            /\ sigs[i].signal_type = "entry"
            /\ (Len(tickers) > 0
                  => sigs[i].ticker \in
                       {tickers[k] : k \in 1 .. Len(tickers)})}

\* order_by(ParsedSignal.timestamp): the orders the rows can come in.
SignalOrders(sigs, ids) ==
    LET n == Cardinality(ids)
    IN  {o \in [1 .. n -> ids] :
            /\ \A i, j \in 1 .. n : i # j => o[i] # o[j]
            /\ \A i, j \in 1 .. n :
                  i < j => sigs[o[i]].timestamp <= sigs[o[j]].timestamp}

\* The dict appended to consensus_events for trigger signal id.
BacktestEvent(sigs, id, data) ==
    [ticker |-> sigs[id].ticker, direction |-> data.direction,
     timestamp |-> sigs[id].timestamp,
     traders_count |-> Cardinality(data.unique_authors),
     signals |-> data.signals]

\* The detection loop from position k of the ordered signals: the event
\* lists it can end with.
RECURSIVE DetectConsensus(_, _, _, _, _, _)
DetectConsensus(sigs, cndl, rule, order, k, processed_signal_ids) ==
    IF k > Len(order) THEN {<<>>}
    ELSE IF order[k] \in processed_signal_ids
    THEN DetectConsensus(sigs, cndl, rule, order, k + 1, processed_signal_ids)
    ELSE UNION {
            IF data.found
            THEN {<<BacktestEvent(sigs, order[k], data)>> \o rest :
                    rest \in DetectConsensus(sigs, cndl, rule, order, k + 1,
                                processed_signal_ids \cup data.signals)}
            ELSE DetectConsensus(sigs, cndl, rule, order, k + 1,
                                 processed_signal_ids) :
            data \in FindConsensusWindow(sigs, cndl, sigs[order[k]],
                        rule.window_minutes, rule.min_traders,
                        rule.strict_consensus, rule.indicator_conditions)}

\* int(x / y) for y > 0: the quotient cut towards zero.
TruncDiv(x, y) == IF x >= 0 THEN x \div y ELSE -((-x) \div y)

\* take_profit_price and stop_loss_price; every direction but long is
\* treated as short.
TakeProfitPrice(direction, entry_price, take_profit_pct) ==
    IF direction = "long"
    THEN (entry_price * (100 + take_profit_pct)) \div 100
    ELSE (entry_price * (100 - take_profit_pct)) \div 100

StopLossPrice(direction, entry_price, stop_loss_pct) ==
    IF direction = "long"
    THEN (entry_price * (100 - stop_loss_pct)) \div 100
    ELSE (entry_price * (100 + stop_loss_pct)) \div 100

\* The two tests of the candle loop with the stop-loss test made first.
BarExitStopFirst(direction, candle, take_profit_price, stop_loss_price) ==
    IF direction = "long"
    THEN IF candle.low <= stop_loss_price THEN "stop_loss"
         ELSE IF candle.high >= take_profit_price THEN "take_profit"
         ELSE "none"
    ELSE IF candle.high >= stop_loss_price THEN "stop_loss"
         ELSE IF candle.low <= take_profit_price THEN "take_profit"
         ELSE "none"

\* The two tests of the candle loop on one candle: which exit it triggers.
BarExit(direction, candle, take_profit_price, stop_loss_price) ==
    IF direction = "long"
    THEN IF candle.high >= take_profit_price THEN "take_profit"
         ELSE IF candle.low <= stop_loss_price THEN "stop_loss"
         ELSE "none"
    ELSE IF candle.low <= take_profit_price THEN "take_profit"
         ELSE IF candle.high >= stop_loss_price THEN "stop_loss"
         ELSE "none"

\* order_by(Candle.time): the candles of a set as an ascending sequence.
RECURSIVE SortBars(_)
SortBars(S) ==
    IF S = {} THEN <<>>
    ELSE LET first == CHOOSE b \in S : \A c \in S : b.time <= c.time
         IN  <<first>> \o SortBars(S \ {first})

\* The candle loop from position k; exit holds exit_price, exit_reason and
\* exit_candle_time as the loop has left them so far.
RECURSIVE WalkCandles(_, _, _, _, _, _)
WalkCandles(direction, cs, k, take_profit_price, stop_loss_price, exit) ==
    IF k > Len(cs) THEN exit
    ELSE LET hit == BarExit(direction, cs[k], take_profit_price,
                            stop_loss_price)
         IN  IF hit = "take_profit"
             THEN [exit_price |-> take_profit_price,
                   exit_reason |-> "take_profit",
                   exit_candle_time |-> cs[k].time]
             ELSE IF hit = "stop_loss"
             THEN [exit_price |-> stop_loss_price,
                   exit_reason |-> "stop_loss",
                   exit_candle_time |-> cs[k].time]
             ELSE WalkCandles(direction, cs, k + 1, take_profit_price,
                              stop_loss_price,
                              [exit_price |-> cs[k].close,
                               exit_reason |-> exit.exit_reason,
                               exit_candle_time |-> cs[k].time])

\* _simulate_trade returning None, and why.
NoTrade(why) == [ok |-> FALSE, why |-> why]

\* The exit of a trade when only the last candle of the horizon is looked at.
TradeExitLastCandle(direction, entry_candle, horizon, after, take_profit_price, stop_loss_price) ==
    LET S == IF horizon = {} THEN after ELSE horizon
        last_candle == CHOOSE b \in S : \A c \in S : b.time >= c.time
        hit == BarExit(direction, last_candle, take_profit_price,
                       stop_loss_price)
    IN  IF horizon = {} \/ hit = "none"
        THEN [exit_price |-> last_candle.close, exit_reason |-> "timeout",
              exit_candle_time |-> last_candle.time]
        ELSE [exit_price |-> IF hit = "take_profit" THEN take_profit_price
                             ELSE stop_loss_price,
              exit_reason |-> hit, exit_candle_time |-> last_candle.time]

\* The exit of a trade: the fallback on the last candle after the entry when
\* the horizon holds none, else the candle loop.
TradeExit(direction, entry_candle, horizon, after, take_profit_price, stop_loss_price) ==
    IF horizon = {}
    THEN LET last_candle == CHOOSE b \in after : \A c \in after : b.time >= c.time
         IN  [exit_price |-> last_candle.close, exit_reason |-> "timeout",
              exit_candle_time |-> last_candle.time]
    ELSE WalkCandles(direction, SortBars(horizon), 1, take_profit_price,
                     stop_loss_price,
                     [exit_price |-> entry_candle.close,
                      exit_reason |-> "timeout",
                      exit_candle_time |-> entry_candle.time])

\* The result dict of a trade entered on entry_candle with shares shares.
TradeResult(event, entry_candle, shares, exit) ==
    LET entry_price == entry_candle.close
        pnl_pct == IF event.direction = "long"
                   THEN ((exit.exit_price - entry_price) * 100) \div entry_price
                   ELSE ((entry_price - exit.exit_price) * 100) \div entry_price
    IN  [ok |-> TRUE, ticker |-> event.ticker, direction |-> event.direction,
         entry_time |-> event.timestamp, exit_time |-> exit.exit_candle_time,
         entry_price |-> entry_price, exit_price |-> exit.exit_price,
         shares |-> shares, position_value |-> shares * entry_price,
         pnl_pct |-> pnl_pct,
         profit_abs |-> (shares * entry_price * pnl_pct) \div 100,
         exit_reason |-> exit.exit_reason,
         traders_count |-> event.traders_count]

\* _simulate_trade
SimulateTrade(bars, event, p, capital) ==
    LET figi == InstrumentFigi(event.ticker)
        B == IF figi = NULL THEN {} ELSE bars[figi]
        from == {b \in B : b.time >= event.timestamp}
    IN  IF figi = NULL THEN NoTrade("no_figi")
        ELSE IF from = {} THEN NoTrade("no_entry_candle")
        ELSE
        LET entry_candle == CHOOSE b \in from : \A c \in from : b.time <= c.time
            entry_price == entry_candle.close
            shares == TruncDiv(capital * p.position_size_pct,
                               100 * entry_price)
            exit_time == event.timestamp + HourMinutes * p.holding_hours
            after == {b \in B : b.time > entry_candle.time}
            horizon == {b \in after : b.time <= exit_time}
        IN  IF shares <= 0 THEN NoTrade("no_shares")
            ELSE IF after = {} THEN NoTrade("no_later_candle")
            ELSE TradeResult(event, entry_candle, shares,
                    TradeExit(event.direction, entry_candle, horizon, after,
                        TakeProfitPrice(event.direction, entry_price,
                                        p.take_profit_pct),
                        StopLossPrice(event.direction, entry_price,
                                      p.stop_loss_pct)))

\* The capital loop with "capital += result['profit_abs']" left out.
NextCapitalKept(capital, result) == capital

\* capital += result['profit_abs']
NextCapital(capital, result) == capital + result.profit_abs

\* The loop over consensus_events from position k: the capital, the results
\* list and, per _simulate_trade call, the event, the capital passed in and
\* what came back.
RECURSIVE SimulateEvents(_, _, _, _, _, _, _)
SimulateEvents(bars, evs, k, p, capital, results, calls) ==
    IF k > Len(evs)
    THEN [capital |-> capital, results |-> results, calls |-> calls]
    ELSE LET result == SimulateTrade(bars, evs[k], p, capital)
             call == [event |-> evs[k], capital |-> capital,
                      result |-> result]
         IN  IF result.ok
             THEN LET after == NextCapital(capital, result)
                  IN  SimulateEvents(bars, evs, k + 1, p, after,
                          Append(results,
                                 [capital_after |-> after] @@ result),
                          Append(calls, call))
             ELSE SimulateEvents(bars, evs, k + 1, p, capital, results,
                                 Append(calls, call))

\* _calculate_statistics: the counts and the profit total.
RECURSIVE TotalProfit(_, _)
TotalProfit(results, k) ==
    IF k = 0 THEN 0 ELSE TotalProfit(results, k - 1) + results[k].profit_abs

CalculateStatistics(results) ==
    [profitable_count |->
        Cardinality({k \in DOMAIN results : results[k].pnl_pct > 0}),
     loss_count |->
        Cardinality({k \in DOMAIN results : results[k].pnl_pct <= 0}),
     total_profit_abs |-> TotalProfit(results, Len(results))]

\* The ConsensusBacktest row run_backtest adds.
BacktestRecord(p, rule, evs, results) ==
    LET stats == CalculateStatistics(results)
    IN  [rule_id |-> p.rule_id, start_date |-> p.start_date,
         end_date |-> p.end_date, tickers |-> BacktestTickers(p, rule),
         total_consensus_found |-> Len(evs),
         profitable_count |-> stats.profitable_count,
         loss_count |-> stats.loss_count,
         consensus_details |-> results, status |-> "completed"]

\* How a run_backtest call ended: the ValueError it raised, or what it
\* returned together with the events it detected and its _simulate_trade
\* calls.
Raised(p, why) ==
    [outcome |-> "raised", why |-> why, params |-> p, events |-> <<>>,
     calls |-> <<>>, results |-> <<>>, final_capital |-> 0]

Returned(p, evs, sim) ==
    [outcome |-> "returned", why |-> "", params |-> p, events |-> evs,
     calls |-> sim.calls, results |-> sim.results,
     final_capital |-> sim.capital]

OnlyBacktest ==
    UNCHANGED <<signals, events, consensus_signals, began, rules, candles,
                last_call, det, messages, batch, reparse, patterns,
                singletons, strength,
                moreVars>>

\* Database.save_candles: the hourly candles of the instruments are stored.
LoadCandles(series) ==
    /\ backtest.bars = NoBars
    /\ backtest.n = 0
    /\ backtest' = [backtest EXCEPT !.bars = series]
    /\ OnlyBacktest

\* ConsensusBacktester.run_backtest
RunBacktest(p) ==
    /\ backtest.n < MaxRuns
    /\ IF InvalidInputs(p)
       THEN backtest' = [backtest EXCEPT !.n = @ + 1,
                                         !.run = Raised(p, "invalid")]
       ELSE IF RuleById(rules, p.rule_id) = {}
       THEN backtest' = [backtest EXCEPT !.n = @ + 1,
                                         !.run = Raised(p, "no_rule")]
       ELSE \E rule \in RuleById(rules, p.rule_id) :
            \E order \in SignalOrders(signals,
                                      PeriodSignals(signals, p, rule)) :
            \E evs \in DetectConsensus(signals, candles, rule, order, 1, {}) :
               LET sim == SimulateEvents(backtest.bars, evs, 1, p,
                                         p.initial_capital, <<>>, <<>>)
               IN  backtest' =
                     [backtest EXCEPT
                        !.n = @ + 1,
                        !.records = Append(@, BacktestRecord(p, rule, evs,
                                                             sim.results)),
                        !.run = Returned(p, evs, sim)]
    /\ OnlyBacktest

NextBacktest ==
    \/ \E d \in BacktestSignals : SaveSignal(d)
    \/ \E series \in BarSeries : LoadCandles(series)
    \/ \E p \in BacktestInputs : RunBacktest(p)

InitBacktest == Init /\ rules \in BacktestRuleSets

SpecBacktest == InitBacktest /\ [][NextBacktest]_vars

\* ---------------------------------------------------------------- strength

\* target_price of a member signal: <<>> is None, <<x>> the price x.
TargetPrices == {<<>>, <<0>>, <<-100>>, <<100>>, <<101>>, <<102>>, <<104>>, <<110>>}

\* The minutes between the first and the last member signal.
TimeSpans == {0, 9, 10, 19, 20}

\* The member signals of a consensus (target_price and timestamp): n of
\* them, the first and the last with the given prices, span minutes apart.
Members(n, lo, hi, span) ==
    [k \in 1 .. n |->
        IF k = 1 THEN [target_price |-> lo, timestamp |-> 0]
        ELSE IF k = n THEN [target_price |-> hi, timestamp |-> span]
        ELSE [target_price |-> <<>>, timestamp |-> 0]]

\* consensus_data as _create_consensus_event receives it: the distinct
\* authors and the member signals.
StrengthInputs ==
    UNION {{[unique_authors |-> 1 .. a,
             signals |-> Members(n, lo, hi, span)] :
              a \in 1 .. n, lo \in TargetPrices, hi \in TargetPrices,
              span \in TimeSpans} :
           n \in 1 .. MaxMembers}

\* prices = [s.target_price for s in signals if s.target_price]
TruthyPrices(sigs) ==
    LET priced == SelectSeq(sigs, LAMBDA s : Len(s.target_price) > 0
                                             /\ s.target_price[1] # 0)
    IN  [k \in 1 .. Len(priced) |-> priced[k].target_price[1]]

RECURSIVE SumSeq(_, _)
SumSeq(xs, k) == IF k = 0 THEN 0 ELSE SumSeq(xs, k - 1) + xs[k]

\* price_spread of _create_consensus_event, as the fraction num / den with
\* den > 0: ((max_price - min_price) / avg_price) * 100; none when there is
\* no price or the average is not positive.
NoSpread == [none |-> TRUE]
PriceSpread(sigs) ==
    LET prices == TruthyPrices(sigs)
        n == Len(prices)
        total == SumSeq(prices, n)
        all == {prices[k] : k \in 1 .. n}
    IN  IF n = 0 THEN NoSpread
        ELSE IF total = 0 \/ Min(all) = 0 \/ Max(all) = 0 \/ total <= 0
        THEN NoSpread
        ELSE [none |-> FALSE, num |-> (Max(all) - Min(all)) * 100 * n,
              den |-> total]

\* price_spread < x and price_spread > x
SpreadBelow(spread, x) == spread.num < x * spread.den
SpreadAbove(spread, x) == spread.num > x * spread.den

\* time_span: the minutes between the earliest and the latest member.
TimeSpan(sigs) ==
    LET ts == {sigs[k].timestamp : k \in DOMAIN sigs}
    IN  Max(ts) - Min(ts)

\* The three adjustments of _calculate_strength.
TradersBonus(traders_count) ==
    IF traders_count >= 5 THEN 20
    ELSE IF traders_count >= 4 THEN 10 ELSE 0

SpreadBonus(spread) ==
    IF spread.none THEN 0
    ELSE IF SpreadBelow(spread, 1) THEN 15
    ELSE IF SpreadBelow(spread, 2) THEN 5
    ELSE IF SpreadAbove(spread, 5) THEN -10 ELSE 0

SpanBonus(sigs) ==
    IF Len(sigs) > 1
    THEN IF TimeSpan(sigs) < 10 THEN 15
         ELSE IF TimeSpan(sigs) < 20 THEN 5 ELSE 0
    ELSE 0

\* _calculate_strength with both trader bonuses added for five traders and
\* the final max(0, min(100, ...)) left out.
CalculateStrengthUnclamped(consensus_data, price_spread) ==
    50 + TradersBonus(Cardinality(consensus_data.unique_authors))
       + (IF Cardinality(consensus_data.unique_authors) >= 5 THEN 10 ELSE 0)
       + SpreadBonus(price_spread) + SpanBonus(consensus_data.signals)

\* _calculate_strength
CalculateStrength(consensus_data, price_spread) ==
    LET strength_ == 50
            + TradersBonus(Cardinality(consensus_data.unique_authors))
            + SpreadBonus(price_spread) + SpanBonus(consensus_data.signals)
    IN  Max({0, Min({100, strength_})})

\* _create_consensus_event up to the strength: price_spread from the member
\* prices, then _calculate_strength; the value becomes the event's
\* consensus_strength.
CreateEventStrength(consensus_data) ==
    /\ strength.pc = "idle"
    /\ LET price_spread == PriceSpread(consensus_data.signals)
       IN  strength' =
             [pc |-> "done", consensus_data |-> consensus_data,
              price_spread |-> price_spread,
              consensus_strength |->
                  CalculateStrength(consensus_data, price_spread)]
    /\ UNCHANGED <<signals, events, consensus_signals, began, rules, candles,
                   last_call, det, messages, batch, reparse, patterns,
                   singletons, backtest, moreVars>>

NextStrength == \E consensus_data \in StrengthInputs : CreateEventStrength(consensus_data)

SpecStrength == InitParse /\ [][NextStrength]_vars

\* --------------------------------------------------------- indicator gate

\* indicator_conditions values a rule can carry.
ConditionSets ==
    {RsiBand, RsiBandNoFlag,
     [rsi |-> [enabled |-> FALSE, min |-> 30, max |-> 70]],
     [rsi |-> [enabled |-> TRUE, min |-> 30]],
     [macd |-> [enabled |-> TRUE, signal |-> "bullish"]],
     [macd |-> [enabled |-> TRUE, signal |-> "bearish"]],
     [macd |-> [enabled |-> FALSE, signal |-> "bearish"]],
     [bollinger |-> [enabled |-> TRUE]],
     [rsi |-> [enabled |-> TRUE, min |-> 10, max |-> 90],
      obv |-> [enabled |-> TRUE, signal |-> "rising"]]}

\* The signals saved before the gate is asked: without a figi, as the parsing
\* service saves them, and with the instrument's figi.
IndicatorSignals ==
    {Sig("ABC", "long", "entry", "A", 1, NULL),
     Sig("ABC", "long", "entry", "A", 1, "F1"),
     Sig("XYZ", "long", "entry", "A", 1, NULL)}

\* _check_indicator_conditions on a ticker, at a time after every candle.
CheckIndicators(ticker, conditions) ==
    /\ indicators.pc = "idle"
    /\ \E verdict \in CheckIndicatorConditions(signals, candles, ticker,
                                               conditions) :
          indicators' = [pc |-> "done", ticker |-> ticker,
                         conditions |-> conditions, verdict |-> verdict]
    /\ UNCHANGED <<signals, events, consensus_signals, began, rules, candles,
                   last_call, det, messages, batch, reparse, patterns,
                   singletons, backtest, strength, positions>>

NextIndicators ==
    \/ \E d \in IndicatorSignals : SaveSignal(d)
    \/ \E ticker \in Tickers, conditions \in ConditionSets :
          CheckIndicators(ticker, conditions)

\* Every candle history, under a rule that carries conditions.
InitIndicators ==
    Init /\ \E r \in rules : DOMAIN r.indicator_conditions # {}

SpecIndicators == InitIndicators /\ [][NextIndicators]_vars

\* -------------------------------------------------------- active positions

OnlyPositions ==
    UNCHANGED <<signals, events, consensus_signals, began, rules, candles,
                last_call, det, messages, batch, reparse, patterns,
                singletons, backtest, strength, indicators>>

\* _get_active_positions: SELECT ... WHERE status = 'active' FOR UPDATE SKIP
\* LOCKED takes the lock of every active row that no other transaction
\* holds and reads those rows.
SelectActive(w) ==
    /\ positions.w[w].pc \in {"idle", "done"}
    /\ LET got == {r \in PositionIds :
                      /\ positions.rows[r].status = "active"
                      /\ positions.lock[r] = NULL}
       IN  positions' = [positions EXCEPT
              !.lock = [r \in PositionIds |->
                           IF r \in got THEN w ELSE positions.lock[r]],
              !.w[w] = [pc |-> "selected", todo |-> got, updated |-> 0]]
    /\ OnlyPositions

\* _get_active_positions returns: the with block of the session ends, the
\* transaction commits and its row locks are gone.
EndSession(w) ==
    /\ positions.w[w].pc = "selected"
    /\ positions' = [positions EXCEPT
          !.lock = [r \in PositionIds |->
                       IF positions.lock[r] = w THEN NULL
                       ELSE positions.lock[r]],
          !.w[w].pc = "loop"]
    /\ OnlyPositions

\* One pass of the loop of update_active_positions on position r: exit is
\* what the exit checks found, "none" (also a missing signal or instrument,
\* or an expired position without a price), an exit condition or a timeout;
\* update_signal_result is an UPDATE by id in a session of its own, which
\* waits for a row lock held by another transaction.
UpdatePosition(w, r, exit) ==
    /\ positions.w[w].pc = "loop"
    /\ r \in positions.w[w].todo
    /\ exit # "none" => positions.lock[r] = NULL
    /\ positions' = [positions EXCEPT
          !.rows[r] = IF exit = "none" THEN @
                      ELSE [status |-> "closed", exit_reason |-> exit,
                            closed_by |-> @.closed_by \cup {w}],
          !.w[w].todo = @ \ {r},
          !.w[w].updated = IF exit = "none" THEN @ ELSE @ + 1]
    /\ OnlyPositions

\* update_active_positions returns updated.
ReturnUpdated(w) ==
    /\ positions.w[w].pc = "loop"
    /\ positions.w[w].todo = {}
    /\ positions' = [positions EXCEPT !.w[w].pc = "done"]
    /\ OnlyPositions

NextPositions ==
    \/ \E w \in Threads : SelectActive(w)
    \/ \E w \in Threads : EndSession(w)
    \/ \E w \in Threads, r \in PositionIds, exit \in ExitResults :
          UpdatePosition(w, r, exit)
    \/ \E w \in Threads : ReturnUpdated(w)

SpecPositions == InitParse /\ [][NextPositions]_vars

\* ------------------------------------------------ directions of the parser

\* Entry signals as the parser stores them: _analyze_operation gives an entry
\* the direction long, short or, when no direction word is found, mixed.
ParserDirections == {"long", "short", "mixed"}

DirectionSignals ==
    {Sig("ABC", d, "entry", a, t, NULL) :
        d \in ParserDirections, a \in {"A", "B"}, t \in {0, 1}}

NextDirections ==
    \/ \E d \in DirectionSignals : SaveSignal(d)
    \/ \E id \in DOMAIN signals : CheckNewSignal(id)

SpecDirections == Init /\ [][NextDirections]_vars

\* ============================================================== properties

\* The consensus_signals rows of event e, and its member signals.
RowsOf(e) == {k \in DOMAIN consensus_signals : consensus_signals[k].consensus_id = e}
MembersOf(e) == {consensus_signals[k].signal_id : k \in RowsOf(e)}

\* The parameters an event's owner evaluated the window with.
OwnerOf(e) == CHOOSE r \in rules : r.id = events[e].rule_id
MinTradersOf(e) ==
    IF events[e].rule_id = NULL THEN default_min_traders
    ELSE OwnerOf(e).min_traders
StrictOf(e) ==
    IF events[e].rule_id = NULL THEN default_strict_consensus
    ELSE OwnerOf(e).strict_consensus

\* The authors named by a set of signals.
AuthorsOf(S) == {signals[i].author : i \in S} \ {NULL, ""}

\* Twice the distance in minutes between two signals.
Dist2(i, j) ==
    IF signals[i].timestamp >= signals[j].timestamp
    THEN 2 * (signals[i].timestamp - signals[j].timestamp)
    ELSE 2 * (signals[j].timestamp - signals[i].timestamp)

\* A step that commits a new event.
NewEvent == Len(events') = Len(events) + 1

\* C1: consensus idempotence.  A detector call creates at most one event and
\* no (event, signal) pair is ever stored twice; a call on the signal the
\* previous call was made on, with nothing changed in between, creates
\* nothing.
C1_ConsensusIdempotence ==
    [][/\ Len(events') <= Len(events) + 1
       /\ \A j, k \in DOMAIN consensus_signals' :
            (/\ consensus_signals'[j].consensus_id = consensus_signals'[k].consensus_id
             /\ consensus_signals'[j].signal_id = consensus_signals'[k].signal_id)
            => j = k
       /\ (last_call # 0 /\ last_call' = last_call)
            => UNCHANGED <<events, consensus_signals>>]_vars

\* C2: when every save is followed by a detector call on the new signal, no
\* two events of the same rule share a member signal.
C2_OneConsensusPerRule ==
    \A e1, e2 \in DOMAIN events :
        (e1 # e2 /\ events[e1].rule_id = events[e2].rule_id)
            => MembersOf(e1) \cap MembersOf(e2) = {}

\* C3: two detector calls that overlap in time (the later event's call began
\* before the earlier event was committed) never both commit an event that
\* includes the same signal.
C3_ConcurrentCallsDisjoint ==
    \A e1, e2 \in DOMAIN events :
        (e1 < e2 /\ began[e2] < e1)
            => MembersOf(e1) \cap MembersOf(e2) = {}

\* C4: every event's traders_count is the number of distinct authors named by
\* the signals of its consensus_signals rows; a member without an author
\* (empty or null) names none.
C4_TradersCountIsDistinctAuthors ==
    \A e \in DOMAIN events :
        events[e].traders_count = Cardinality(AuthorsOf(MembersOf(e)))

\* C4's case: an event one of whose members has no author.
C4_Witness ==
    \E e \in DOMAIN events : \E i \in MembersOf(e) : signals[i].author = ""

\* C5: every event has at least the owning rule's min_traders distinct
\* authors (2 under the defaults), and each of its members is an entry signal
\* on the event's ticker with the event's direction.
C5_EnoughAuthorsSameSide ==
    \A e \in DOMAIN events :
        /\ Cardinality(AuthorsOf(MembersOf(e))) >= MinTradersOf(e)
        /\ \A i \in MembersOf(e) :
            /\ signals[i].signal_type = "entry"
            /\ signals[i].ticker = events[e].ticker
            /\ signals[i].direction = events[e].direction

\* C5's case: an event that left out a signal of its ticker and window which
\* is no entry or has another direction.
C5_Witness ==
    \E e \in DOMAIN events : \E i \in DOMAIN signals \ MembersOf(e) :
        /\ signals[i].ticker = events[e].ticker
        /\ Dist2(i, events[e].trigger_signal_id) <= events[e].window_minutes
        /\ signals[i].signal_type # "entry"
            \/ signals[i].direction \notin {NULL, events[e].direction}

\* C6: every member's timestamp lies within [first_signal_at, last_signal_at]
\* and within window_minutes / 2 of the trigger's.
C6_WindowContainment ==
    \A e \in DOMAIN events : \A i \in MembersOf(e) :
        /\ events[e].first_signal_at <= signals[i].timestamp
        /\ signals[i].timestamp <= events[e].last_signal_at
        /\ Dist2(i, events[e].trigger_signal_id) <= events[e].window_minutes

\* C6's case: an event with a member on the edge of its window that left out
\* a same-side entry signal beyond the edge.
C6_Witness ==
    \E e \in DOMAIN events :
        /\ \E i \in MembersOf(e) :
              Dist2(i, events[e].trigger_signal_id) = events[e].window_minutes
        /\ \E i \in DOMAIN signals \ MembersOf(e) :
              /\ signals[i].ticker = events[e].ticker
              /\ signals[i].signal_type = "entry"
              /\ signals[i].direction = events[e].direction
              /\ Dist2(i, events[e].trigger_signal_id) > events[e].window_minutes

\* The directions carried by the entry signals on signal i's ticker within
\* w / 2 minutes of it.
DirectionsAround(i, w) ==
    {signals[j].direction :
        j \in {k \in DOMAIN signals :
                 /\ signals[k].ticker = signals[i].ticker
                 /\ signals[k].signal_type = "entry"
                 /\ signals[k].direction # NULL
                 /\ Dist2(k, i) <= w}}

\* C7: no event is created under a strict rule (or the strict defaults) while
\* the entry signals in the window around the trigger carry more than one
\* direction.
C7_StrictRejectsMixed ==
    [][NewEvent =>
        LET e == Len(events') IN
        LET strict == IF events'[e].rule_id = NULL THEN default_strict_consensus
                      ELSE (CHOOSE r \in rules : r.id = events'[e].rule_id)
                                .strict_consensus
        IN  strict => Cardinality(DirectionsAround(events'[e].trigger_signal_id,
                                      events'[e].window_minutes)) <= 1]_vars

\* C7's case: a call was made on a trigger with both directions in the window
\* of a strict rule set, and there is no event.
C7_Witness ==
    /\ last_call # 0
    /\ events = <<>>
    /\ \E r \in rules : r.is_active
    /\ \A r \in rules : r.is_active =>
          /\ r.strict_consensus
          /\ RuleAccepts(r, signals[last_call])
          /\ Cardinality(DirectionsAround(last_call, r.window_minutes)) > 1
    /\ signals[last_call].signal_type = "entry"

\* C8: a step creates at most one event, and its rule_id is that of an active
\* rule whose filters accept the trigger and whose window evaluation
\* qualifies, no active rule of higher priority doing so for certain; with no
\* active rule the event has no rule.
C8_RuleOwnership ==
    [][/\ Len(events') <= Len(events) + 1
       /\ NewEvent =>
            LET e == events'[Len(events')]
                trigger == signals[e.trigger_signal_id]
                Results(r) == FindConsensusWindow(signals, candles, trigger,
                                  r.window_minutes, r.min_traders,
                                  r.strict_consensus, r.indicator_conditions)
            IN  IF \A r \in rules : ~r.is_active THEN e.rule_id = NULL
                ELSE \E r \in rules :
                        /\ r.id = e.rule_id
                        /\ r.is_active
                        /\ RuleAccepts(r, trigger)
                        /\ \E x \in Results(r) : x.found
                        /\ \A q \in rules :
                            (/\ q.is_active
                             /\ q.priority > r.priority
                             /\ RuleAccepts(q, trigger))
                            => NoConsensus \in Results(q)]_vars

\* C8's case: an event owned by the second rule in priority order, the first
\* one not having qualified.
C8_Witness ==
    \E e \in DOMAIN events :
        /\ events[e].rule_id # NULL
        /\ \E q \in rules :
            /\ q.is_active
            /\ q.priority > OwnerOf(e).priority
            /\ RuleAccepts(q, signals[events[e].trigger_signal_id])

\* C9: a rule whose indicator_conditions put rsi.min = 30 and rsi.max = 70 in
\* force owns no event on a ticker whose instrument has at least 30 hourly
\* candles and a latest RSI below 30 or above 70.
C9_IndicatorGate ==
    \A e \in DOMAIN events :
        (/\ events[e].rule_id # NULL
         /\ "rsi" \in DOMAIN OwnerOf(e).indicator_conditions
         /\ OwnerOf(e).indicator_conditions.rsi = RsiBand.rsi)
        => LET figi == InstrumentFigi(events[e].ticker)
           IN  ~(/\ figi # NULL
                 /\ candles[figi].n >= MinCandles
                 /\ ~candles[figi].rsi_nan
                 /\ candles[figi].rsi < 30 \/ candles[figi].rsi > 70)

\* C10: when parse_all_unprocessed_messages has completed, every message it
\* pulled has is_processed = true, with parse_success = true exactly for the
\* messages whose signal was persisted and parse_success = false for the
\* others.
C10_PulledMessagesMarked ==
    batch.pc = "done" =>
        \A k \in DOMAIN batch.unprocessed :
            LET id == batch.unprocessed[k].id
                persisted == \E i \in DOMAIN signals :
                                signals[i].raw_message_id = id
            IN  /\ messages[id].is_processed
                /\ messages[id].parse_success =
                      (IF persisted THEN "true" ELSE "false")

\* C11: per-message error isolation.  When parse_all_unprocessed_messages has
\* completed, its loop has gone through every message it pulled: a failure on
\* one message never keeps the later ones from being handled.
C11_ErrorIsolation ==
    batch.pc = "done" => batch.i >= Len(batch.unprocessed)

\* C12: in the batch flow every signal the loop saves is handed to the
\* detector in the same pass, before the next message is parsed.
C12_DetectorOncePerSavedSignal ==
    [][(batch.pc = "loop" /\ Len(signals') = Len(signals) + 1)
          => last_call' = Len(signals')]_vars

C14_PatternSnapshot ==
    \A t \in Threads :
        patterns.th[t].pc = "done"
            => \E S \in patterns.seen :
                  patterns.th[t].result = GetAllPatterns(S)

\* C15: each getter constructs at most one instance, and all callers of one
\* getter receive the same instance.
C15_SingletonThreadSafe ==
    /\ \A g \in Getters : singletons.made[g] <= 1
    /\ \A t, u \in Threads :
          (/\ singletons.th[t].pc = "done"
           /\ singletons.th[u].pc = "done"
           /\ singletons.th[t].getter = singletons.th[u].getter)
          => singletons.th[t].result = singletons.th[u].result

\* The ConsensusBacktest rows a step adds.
StoredBy(old, new) == Len(new.records) - Len(old.records)

\* C16: run_backtest persists exactly one ConsensusBacktest record, with
\* status completed, if and only if it returns normally; on an invalid input
\* (non-positive rule_id, capital or holding_hours, start_date >= end_date, a
\* percentage outside (0, 100]) or an unknown rule it raises, persists
\* nothing and simulates no trade.
C16_BacktestPersistsIffReturns ==
    [][backtest'.n = backtest.n + 1 =>
        LET run == backtest'.run
            p == run.params
            invalid ==
                \/ p.rule_id <= 0
                \/ p.initial_capital <= 0
                \/ p.holding_hours <= 0
                \/ p.start_date >= p.end_date
                \/ \E x \in {p.take_profit_pct, p.stop_loss_pct,
                             p.position_size_pct} : x <= 0 \/ x > 100
            unknown == ~\E r \in rules : RuleKey(r.id) = p.rule_id
        IN  /\ run.outcome \in {"returned", "raised"}
            /\ SubSeq(backtest'.records, 1, Len(backtest.records))
                  = backtest.records
            /\ (run.outcome = "returned")
                  <=> (/\ StoredBy(backtest, backtest') = 1
                       /\ backtest'.records[Len(backtest'.records)].status
                             = "completed")
            /\ (run.outcome = "raised") => StoredBy(backtest, backtest') = 0
            /\ (invalid \/ unknown)
                  => (/\ run.outcome = "raised"
                      /\ StoredBy(backtest, backtest') = 0
                      /\ run.calls = <<>>)]_vars

\* C16's case: a run over detected events that returned, with its record
\* stored and a trade in it.
C16_Witness ==
    /\ backtest.n = 1
    /\ backtest.run.outcome = "returned"
    /\ Len(backtest.records) = 1
    /\ backtest.records[1].status = "completed"
    /\ Len(backtest.records[1].consensus_details) >= 1

\* The candle a trade on event e is entered on, and the candles of its
\* horizon: after the entry candle, up to holding_hours after the event.
EntryCandleOf(e) ==
    LET B == backtest.bars[InstrumentFigi(e.ticker)]
        from == {b \in B : b.time >= e.timestamp}
    IN  CHOOSE b \in from : \A c \in from : b.time <= c.time

HorizonOf(e, holding_hours) ==
    {b \in backtest.bars[InstrumentFigi(e.ticker)] :
        /\ b.time > EntryCandleOf(e).time
        /\ b.time <= e.timestamp + HourMinutes * holding_hours}

\* A candle touches the take-profit / the stop-loss level of a trade.
TouchesTakeProfit(direction, b, take_profit_price) ==
    IF direction = "long" THEN b.high >= take_profit_price
    ELSE b.low <= take_profit_price

TouchesStopLoss(direction, b, stop_loss_price) ==
    IF direction = "long" THEN b.low <= stop_loss_price
    ELSE b.high >= stop_loss_price

\* C17: same-bar precedence.  When the first candle of the horizon that
\* touches a level touches both the take-profit and the stop-loss level, the
\* trade exits on it at the take-profit price with exit_reason take_profit.
C17_SameBarTakeProfitFirst ==
    backtest.run.outcome = "returned" =>
        \A k \in DOMAIN backtest.run.calls :
            LET call == backtest.run.calls[k]
                e == call.event
                p == backtest.run.params
                tp == TakeProfitPrice(e.direction, call.result.entry_price,
                                      p.take_profit_pct)
                sl == StopLossPrice(e.direction, call.result.entry_price,
                                    p.stop_loss_pct)
                H == HorizonOf(e, p.holding_hours)
            IN  call.result.ok =>
                  \A b \in H :
                     (/\ TouchesTakeProfit(e.direction, b, tp)
                      /\ TouchesStopLoss(e.direction, b, sl)
                      /\ \A c \in H :
                            c.time < b.time
                              => (/\ ~TouchesTakeProfit(e.direction, c, tp)
                                  /\ ~TouchesStopLoss(e.direction, c, sl)))
                     => (/\ call.result.exit_reason = "take_profit"
                         /\ call.result.exit_price = tp
                         /\ call.result.exit_time = b.time)

\* C17's case: a recorded short trade that left on a candle whose low reached
\* the take-profit level and whose high reached the stop-loss level.
C17_Witness ==
    /\ backtest.run.outcome = "returned"
    /\ \E k \in DOMAIN backtest.run.results :
          LET t == backtest.run.results[k]
              p == backtest.run.params
          IN  /\ t.direction = "short"
              /\ t.exit_reason = "take_profit"
              /\ \E b \in backtest.bars[InstrumentFigi(t.ticker)] :
                    /\ b.time = t.exit_time
                    /\ 100 * b.low <= t.entry_price * (100 - p.take_profit_pct)
                    /\ 100 * b.high >= t.entry_price * (100 + p.stop_loss_pct)

\* The capital before the k-th recorded trade of the last run.
CapitalBefore(k) ==
    IF k = 1 THEN backtest.run.params.initial_capital
    ELSE backtest.run.results[k - 1].capital_after

\* C18: capital threading.  The events are simulated one at a time in event
\* time order; each trade is sized from the capital the previous recorded
\* trade left; the k-th recorded trade's capital_after is initial_capital
\* plus the profit_abs of the first k recorded trades; final_capital is the
\* last capital_after; an aborted trade leaves the capital unchanged and is
\* not recorded.
C18_CapitalThreading ==
    backtest.run.outcome = "returned" =>
        LET run == backtest.run
            p == run.params
            recorded == SelectSeq(run.calls, LAMBDA c : c.result.ok)
        IN  /\ Len(run.calls) = Len(run.events)
            /\ \A i \in DOMAIN run.calls : run.calls[i].event = run.events[i]
            /\ \A i, j \in DOMAIN run.calls :
                  i < j => run.calls[i].event.timestamp
                              <= run.calls[j].event.timestamp
            /\ Len(run.results) = Len(recorded)
            /\ \A k \in DOMAIN run.results :
                  /\ run.results[k].entry_time = recorded[k].event.timestamp
                  /\ recorded[k].capital = CapitalBefore(k)
                  /\ run.results[k].shares =
                        TruncDiv(CapitalBefore(k) * p.position_size_pct,
                                 100 * run.results[k].entry_price)
                  /\ run.results[k].capital_after =
                        p.initial_capital + TotalProfit(run.results, k)
            /\ run.final_capital =
                  (IF run.results = <<>> THEN p.initial_capital
                   ELSE run.results[Len(run.results)].capital_after)
            /\ \A i \in DOMAIN run.calls :
                  (~run.calls[i].result.ok /\ i < Len(run.calls))
                     => run.calls[i + 1].capital = run.calls[i].capital
            /\ \A i \in DOMAIN run.calls :
                  (~run.calls[i].result.ok /\ i = Len(run.calls))
                     => run.final_capital = run.calls[i].capital

\* C18's case: a run with two recorded trades, the first with a profit that
\* changes the size of the second, and an aborted trade before a recorded
\* one.
C18_Witness ==
    /\ backtest.run.outcome = "returned"
    /\ Len(backtest.run.results) = 2
    /\ backtest.run.results[1].profit_abs # 0
    /\ backtest.run.results[2].shares # backtest.run.results[1].shares
    /\ \E i, j \in DOMAIN backtest.run.calls :
          i < j /\ ~backtest.run.calls[i].result.ok
                /\ backtest.run.calls[j].result.ok

\* C19: strength bounds.  The consensus_strength computed for an event is
\* between 0 and 100 inclusive, whatever the author count, the price spread
\* (none included) and the time span of the member signals.
C19_StrengthBounds ==
    strength.pc = "done"
        => (strength.consensus_strength >= 0
            /\ strength.consensus_strength <= 100)

\* C19's case: five authors, prices less than 1 % apart and signals less
\* than ten minutes apart, the largest sum of adjustments.
C19_Witness ==
    /\ strength.pc = "done"
    /\ Cardinality(strength.consensus_data.unique_authors) >= 5
    /\ ~strength.price_spread.none
    /\ strength.price_spread.num > 0
    /\ strength.price_spread.num < strength.price_spread.den
    /\ strength.consensus_strength = 100

\* C20: every event's window_minutes is that of the rule that owns it; an
\* event without a rule has the default 10, exists only while no rule is
\* active, has at least 2 authors, and was made with a single direction in
\* the 10 minute window around its trigger.
C20_WindowMinutesOfOwner ==
    /\ [](\A e \in DOMAIN events :
            IF events[e].rule_id = NULL
            THEN /\ events[e].window_minutes = 10
                 /\ \A r \in rules : ~r.is_active
                 /\ Cardinality(AuthorsOf(MembersOf(e))) >= 2
            ELSE \E r \in rules :
                    /\ r.id = events[e].rule_id
                    /\ events[e].window_minutes = r.window_minutes)
    /\ [][(NewEvent /\ events'[Len(events')].rule_id = NULL)
            => Cardinality(DirectionsAround(
                   events'[Len(events')].trigger_signal_id, 10)) <= 1]_vars

\* C20's case: an event owned by a rule whose window is neither the default
\* nor that of another active rule.
C20_Witness ==
    \E e \in DOMAIN events :
        /\ events[e].rule_id # NULL
        /\ events[e].window_minutes # 10
        /\ events[e].window_minutes = OwnerOf(e).window_minutes
        /\ \E q \in rules :
              q.is_active /\ q.window_minutes # events[e].window_minutes

\* C21: P&L by exit reason.  For every recorded trade of a backtest, a
\* take_profit exit has pnl_pct = +take_profit_pct, a stop_loss exit has
\* pnl_pct = -stop_loss_pct, and a timeout exit has pnl_pct strictly between
\* the two, for long and short, the trades closed on the last candle beyond
\* an empty horizon included (every candle has low <= close <= high).
C21_PnlByExitReason ==
    backtest.run.outcome = "returned" =>
        \A k \in DOMAIN backtest.run.results :
            LET t == backtest.run.results[k]
                p == backtest.run.params
            IN  /\ t.exit_reason = "take_profit"
                      => t.pnl_pct = p.take_profit_pct
                /\ t.exit_reason = "stop_loss"
                      => t.pnl_pct = -p.stop_loss_pct
                /\ t.exit_reason = "timeout"
                      => (/\ t.pnl_pct > -p.stop_loss_pct
                          /\ t.pnl_pct < p.take_profit_pct)

\* C22: every event has exactly one consensus_signals row with is_initiator
\* set, and the signal of that row is the event's trigger_signal_id.
C22_OneInitiator ==
    \A e \in DOMAIN events :
        LET initiators == {k \in RowsOf(e) : consensus_signals[k].is_initiator}
        IN  /\ Cardinality(initiators) = 1
            /\ \A k \in initiators :
                  consensus_signals[k].signal_id = events[e].trigger_signal_id

\* C23: the indicator gate is a logical AND with opt-out on missing data.
\* _check_indicator_conditions rejects if and only if the ticker's instrument
\* has at least 30 hourly candles and some condition with enabled = true
\* fails: RSI below its min or above its max, or a macd / bollinger / obv
\* signal other than the expected one.
C23_IndicatorAnd ==
    [][(indicators.pc = "idle" /\ indicators'.pc = "done") =>
        LET c == indicators'.conditions
            figi == InstrumentFigi(indicators'.ticker)
            available == IF figi = NULL THEN FALSE
                         ELSE candles[figi].n >= 30
            Fails(name) ==
                IF name = "rsi"
                THEN /\ ~candles[figi].rsi_nan
                     /\ \/ ("min" \in DOMAIN c[name]
                              /\ candles[figi].rsi < c[name].min)
                        \/ ("max" \in DOMAIN c[name]
                              /\ candles[figi].rsi > c[name].max)
                ELSE /\ "signal" \in DOMAIN c[name]
                     /\ candles[figi].signals[name] # c[name].signal
            rejects ==
                /\ available
                /\ \E name \in DOMAIN c :
                      /\ "enabled" \in DOMAIN c[name]
                      /\ c[name].enabled
                      /\ Fails(name)
        IN  indicators'.verdict = ~rejects]_vars

\* C24: earliest exit wins.  The candles after the entry candle and up to
\* event time + holding_hours are walked in ascending time order: a trade
\* whose horizon holds a candle touching take-profit or stop-loss exits on
\* the earliest such candle, with that candle's level as exit price, whatever
\* the later candles are; a trade whose horizon holds candles none of which
\* touches a level exits with exit_reason timeout at the close of the last
\* candle of the horizon.
C24_EarliestExitWins ==
    backtest.run.outcome = "returned" =>
        \A k \in DOMAIN backtest.run.calls :
            LET call == backtest.run.calls[k]
                e == call.event
                p == backtest.run.params
                tp == TakeProfitPrice(e.direction, call.result.entry_price,
                                      p.take_profit_pct)
                sl == StopLossPrice(e.direction, call.result.entry_price,
                                    p.stop_loss_pct)
                H == HorizonOf(e, p.holding_hours)
                touching == {b \in H : \/ TouchesTakeProfit(e.direction, b, tp)
                                       \/ TouchesStopLoss(e.direction, b, sl)}
            IN  (call.result.ok /\ H # {}) =>
                  IF touching # {}
                  THEN LET first == CHOOSE b \in touching :
                                        \A c \in touching : b.time <= c.time
                       IN  /\ call.result.exit_time = first.time
                           /\ \/ /\ call.result.exit_reason = "take_profit"
                                 /\ call.result.exit_price = tp
                                 /\ TouchesTakeProfit(e.direction, first, tp)
                              \/ /\ call.result.exit_reason = "stop_loss"
                                 /\ call.result.exit_price = sl
                                 /\ TouchesStopLoss(e.direction, first, sl)
                  ELSE LET last == CHOOSE b \in H : \A c \in H : b.time >= c.time
                       IN  /\ call.result.exit_reason = "timeout"
                           /\ call.result.exit_price = last.close
                           /\ call.result.exit_time = last.time

\* C24's case: a trade that left at take-profit on a candle of its horizon
\* while a later candle of the horizon, and not that one, touches the
\* stop-loss level.
C24_Witness ==
    /\ backtest.run.outcome = "returned"
    /\ \E k \in DOMAIN backtest.run.calls :
          LET call == backtest.run.calls[k]
              e == call.event
              p == backtest.run.params
              sl == StopLossPrice(e.direction, call.result.entry_price,
                                  p.stop_loss_pct)
              H == HorizonOf(e, p.holding_hours)
          IN  /\ call.result.ok
              /\ call.result.exit_reason = "take_profit"
              /\ \E b \in H : /\ b.time > call.result.exit_time
                              /\ TouchesStopLoss(e.direction, b, sl)
                              /\ ~TouchesStopLoss(e.direction,
                                     CHOOSE c \in H : c.time = call.result.exit_time, sl)

\* The list holds exactly the patterns of db, each once, by descending
\* priority.
ActiveByPriority(list, db) ==
    /\ Len(list) = Cardinality(db)
    /\ {list[k] : k \in DOMAIN list} = db
    /\ \A i, j \in DOMAIN list :
          i < j => PatternPriority(list[i]) >= PatternPriority(list[j])

\* C25: pattern cache lifecycle, for calls that do not overlap.  The cache
\* starts unloaded, so the first get_patterns loads; a get_patterns on an
\* unloaded cache either loads exactly the active patterns the table holds at
\* that moment, by descending priority, and returns them, or fails, returns
\* nothing and leaves the cache empty and unloaded for the next read to try
\* again; while the cache is loaded every get_patterns returns the cached
\* list, and a change of the table changes neither the cache nor the flag.
C25_PatternCacheLifecycle ==
    /\ ~patterns.loaded /\ patterns.cache = <<>>
    /\ [][/\ patterns'.db # patterns.db
                => (/\ patterns'.cache = patterns.cache
                    /\ patterns'.loaded = patterns.loaded)
          /\ (patterns.loaded /\ patterns'.loaded)
                => patterns'.cache = patterns.cache
          /\ (~patterns.loaded /\ patterns'.loaded)
                => ActiveByPriority(patterns'.cache, patterns.db)
          /\ (~patterns.loaded /\ ~patterns'.loaded)
                => patterns'.cache = <<>>
          /\ \A t \in Threads :
                patterns'.th[t] # patterns.th[t]
                    => (/\ patterns'.th[t].pc = "done"
                        /\ patterns'.th[t].result = patterns'.cache
                        /\ patterns.loaded
                              => (/\ patterns'.loaded
                                  /\ patterns'.th[t].result = patterns.cache))
         ]_vars

\* C25's case: the first thread holds the list of an earlier load, the second
\* the list loaded after a reload, the cache is loaded with the latter and
\* the table has changed since.
C25_Witness ==
    /\ patterns.th["t1"].pc = "done"
    /\ patterns.th["t2"].pc = "done"
    /\ patterns.th["t1"].result # <<>>
    /\ patterns.th["t2"].result # patterns.th["t1"].result
    /\ patterns.loaded
    /\ patterns.cache = patterns.th["t2"].result
    /\ Len(patterns.cache) = MaxPatterns
    /\ {patterns.cache[k] : k \in DOMAIN patterns.cache} # patterns.db

\* C26: active-position workers process disjoint rows.  With two workers in
\* update_active_positions at the same time, no signal_results row is closed
\* (exit fields written, status set to closed) by both of them.
C26_DisjointClosing ==
    \A r \in PositionIds : Cardinality(positions.rows[r].closed_by) <= 1

\* C27: within one run_backtest no signal is a member of more than one
\* detected consensus event: the member signals of any two events of the run
\* are disjoint.
C27_EventsShareNoSignal ==
    backtest.run.outcome = "returned" =>
        \A j, k \in DOMAIN backtest.run.calls :
            j < k => backtest.run.calls[j].event.signals
                        \cap backtest.run.calls[k].event.signals = {}

\* C28: every ConsensusEvent the detector creates has direction long or
\* short, never mixed or another value.
C28_EventDirectionLongOrShort ==
    \A e \in DOMAIN events : events[e].direction \in {"long", "short"}

\* C29: every event tagged with a rule that has a direction_filter has the
\* direction of that filter, and every event tagged with a rule that has a
\* ticker_filter has a ticker the filter lists (letter case aside), for
\* strict and non-strict rules alike.
C29_EventMatchesFilters ==
    \A e \in DOMAIN events :
        events[e].rule_id # NULL =>
            LET rule == OwnerOf(e)
            IN  /\ Truthy(rule.direction_filter)
                    => events[e].direction = rule.direction_filter
                /\ Len(rule.ticker_filter) > 0
                    => Upper(events[e].ticker) \in
                          {Upper(rule.ticker_filter[k]) :
                              k \in 1 .. Len(rule.ticker_filter)}

\* C30: at most one ParsedSignal exists per RawMessage, whatever the scraper
\* saves, the batch parse runs and the full reparse have done.
C30_OneSignalPerMessage ==
    \A i, j \in DOMAIN signals :
        (/\ signals[i].raw_message_id # 0
         /\ signals[i].raw_message_id = signals[j].raw_message_id) => i = j

====
